---- MODULE Spec2Model ----
(***************************************************************************)
(* Model of the Apito data provider for Refine (src/src/provider.ts, the   *)
(* variant built by apitoDataProvider(apiUrl, token, onTokenExpired)).     *)
(*                                                                         *)
(* A call of one of the seven operations runs in two steps: the part of    *)
(* the handler before the transport's promise is awaited (the ...Call      *)
(* actions) and the part after it (the ...Settle actions).  The transport  *)
(* is an external collaborator: its answer (a {data, error} response or a  *)
(* thrown value) is drawn from bounded sets.                               *)
(*                                                                         *)
(* JavaScript strings are modelled as sequences of one-character strings,  *)
(* so toLowerCase, includes, join, charAt/slice and template literals are  *)
(* computed character by character.  An optional value (a property that    *)
(* may be undefined) is the empty sequence None or the one-element         *)
(* sequence Some(v).                                                       *)
(***************************************************************************)
EXTENDS Integers, Sequences, FiniteSets, TLC

(***************************************************************************)
(* Bounds of the model                                                     *)
(***************************************************************************)
\* longest graphQLErrors list of a transport error
MaxGraphQLErrors == 2
\* longest array the backend returns under a list key
MaxRecords == 2
\* longest errors array embedded in a response payload
MaxDataErrors == 2
\* the longest list of filters a caller passes to getList
MaxFilters == 2
\* the longest list of sorters a caller passes to getList
MaxSorters == 2
\* the longest array of payloads a caller passes to createMany
MaxPayloads == 3

(***************************************************************************)
(* Optional values                                                         *)
(***************************************************************************)
None == <<>>
Some(v) == <<v>>
IsSome(o) == Len(o) > 0

(***************************************************************************)
(* String literals of provider.ts                                          *)
(***************************************************************************)
MsgUnknownError ==
    <<"U", "n", "k", "n", "o", "w", "n", " ", "e", "r", "r", "o", "r", " ", "o", "c", "c", "u", "r", "r", "e", "d">>
MsgTokenExpired ==
    <<"T", "o", "k", "e", "n", " ", "e", "x", "p", "i", "r", "e", "d", ".", " ", "P", "l", "e", "a", "s", "e", " ", "l", "o", "g", "i", "n", " ", "a", "g", "a", "i", "n", ".">>
MsgNetworkPrefix ==
    <<"N", "e", "t", "w", "o", "r", "k", " ", "e", "r", "r", "o", "r", ":", " ">>
MsgAuthFailed ==
    <<"A", "u", "t", "h", "e", "n", "t", "i", "c", "a", "t", "i", "o", "n", " ", "f", "a", "i", "l", "e", "d", ".", " ", "P", "l", "e", "a", "s", "e", " ", "l", "o", "g", "i", "n", " ", "a", "g", "a", "i", "n", ".">>
MsgFallback ==
    <<"A", "n", " ", "e", "r", "r", "o", "r", " ", "o", "c", "c", "u", "r", "r", "e", "d", " ", "d", "u", "r", "i", "n", "g", " ", "t", "h", "e", " ", "G", "r", "a", "p", "h", "Q", "L", " ", "o", "p", "e", "r", "a", "t", "i", "o", "n">>
KwUnauthorized ==
    <<"u", "n", "a", "u", "t", "h", "o", "r", "i", "z", "e", "d">>
KwForbidden ==
    <<"f", "o", "r", "b", "i", "d", "d", "e", "n">>
KwToken ==
    <<"t", "o", "k", "e", "n">>
KwAuthentication ==
    <<"a", "u", "t", "h", "e", "n", "t", "i", "c", "a", "t", "i", "o", "n">>
KwAuthorization ==
    <<"a", "u", "t", "h", "o", "r", "i", "z", "a", "t", "i", "o", "n">>
JoinSeparator ==
    <<",", " ">>
MsgFailedList ==
    <<"F", "a", "i", "l", "e", "d", " ", "t", "o", " ", "f", "e", "t", "c", "h", " ", "l", "i", "s", "t", " ", "d", "a", "t", "a">>
MsgFailedFetchPrefix ==
    <<"F", "a", "i", "l", "e", "d", " ", "t", "o", " ", "f", "e", "t", "c", "h", " ">>
MsgWithId ==
    <<" ", "w", "i", "t", "h", " ", "i", "d", " ">>
MsgFailedCreatePrefix ==
    <<"F", "a", "i", "l", "e", "d", " ", "t", "o", " ", "c", "r", "e", "a", "t", "e", " ">>
MsgFailedCreateManyPrefix ==
    <<"F", "a", "i", "l", "e", "d", " ", "t", "o", " ", "c", "r", "e", "a", "t", "e", " ", "m", "u", "l", "t", "i", "p", "l", "e", " ">>
MsgRecordsSuffix ==
    <<" ", "r", "e", "c", "o", "r", "d", "s">>
MsgFailedUpdatePrefix ==
    <<"F", "a", "i", "l", "e", "d", " ", "t", "o", " ", "u", "p", "d", "a", "t", "e", " ">>
MsgFailedDeletePrefix ==
    <<"F", "a", "i", "l", "e", "d", " ", "t", "o", " ", "d", "e", "l", "e", "t", "e", " ">>
MsgFailedCustom ==
    <<"F", "a", "i", "l", "e", "d", " ", "t", "o", " ", "e", "x", "e", "c", "u", "t", "e", " ", "c", "u", "s", "t", "o", "m", " ", "o", "p", "e", "r", "a", "t", "i", "o", "n">>
MsgBothProvided ==
    <<"Q", "u", "e", "r", "y", " ", "a", "n", "d", " ", "m", "u", "t", "a", "t", "i", "o", "n", " ", "c", "a", "n", "n", "o", "t", " ", "b", "o", "t", "h", " ", "b", "e", " ", "p", "r", "o", "v", "i", "d", "e", "d", " ", "f", "o", "r", " ", "c", "u", "s", "t", "o", "m", " ", "o", "p", "e", "r", "a", "t", "i", "o", "n">>
MsgNoneProvided ==
    <<"Q", "u", "e", "r", "y", " ", "o", "r", " ", "m", "u", "t", "a", "t", "i", "o", "n", " ", "i", "s", " ", "r", "e", "q", "u", "i", "r", "e", "d", " ", "f", "o", "r", " ", "c", "u", "s", "t", "o", "m", " ", "o", "p", "e", "r", "a", "t", "i", "o", "n">>
SufList ==
    <<"L", "i", "s", "t">>
SufListCount ==
    <<"L", "i", "s", "t", "C", "o", "u", "n", "t">>
PreCreate ==
    <<"c", "r", "e", "a", "t", "e">>
PreUpsert ==
    <<"u", "p", "s", "e", "r", "t">>
PreUpdate ==
    <<"u", "p", "d", "a", "t", "e">>
PreDelete ==
    <<"d", "e", "l", "e", "t", "e">>
KeyErrors ==
    <<"e", "r", "r", "o", "r", "s">>
\* the literals of the filter compiler, of the list document and of the
\* variables the handlers submit
FieldKey ==
    <<"_", "k", "e", "y">>
MarkRelation ==
    <<"r", "e", "l", "a", "t", "i", "o", "n", ".">>
KeyRelation ==
    <<"r", "e", "l", "a", "t", "i", "o", "n">>
PrefixData ==
    <<"d", "a", "t", "a", ".">>
KeyOR ==
    <<"O", "R">>
KeyAND ==
    <<"A", "N", "D">>
OpEq ==
    <<"e", "q">>
OpOr ==
    <<"o", "r">>
OpAnd ==
    <<"a", "n", "d">>
Dot ==
    <<".">>
VarKey ==
    <<"_", "k", "e", "y">>
VarConnection ==
    <<"c", "o", "n", "n", "e", "c", "t", "i", "o", "n">>
VarWhere ==
    <<"w", "h", "e", "r", "e">>
VarRelationWhere ==
    <<"r", "e", "l", "a", "t", "i", "o", "n", "W", "h", "e", "r", "e">>
VarKeyCount ==
    <<"_", "k", "e", "y", "C", "o", "u", "n", "t">>
VarWhereCount ==
    <<"w", "h", "e", "r", "e", "C", "o", "u", "n", "t">>
VarRelationWhereCount ==
    <<"r", "e", "l", "a", "t", "i", "o", "n", "W", "h", "e", "r", "e", "C", "o", "u", "n", "t">>
VarSort ==
    <<"s", "o", "r", "t">>
VarPage ==
    <<"p", "a", "g", "e">>
VarLimit ==
    <<"l", "i", "m", "i", "t">>
VarLocal ==
    <<"l", "o", "c", "a", "l">>
TypeKeyCondition ==
    <<"L", "I", "S", "T", "_", "K", "E", "Y", "_", "C", "O", "N", "D", "I", "T", "I", "O", "N">>
TypeConnectionCondition ==
    <<"_", "C", "O", "N", "N", "E", "C", "T", "I", "O", "N", "_", "F", "I", "L", "T", "E", "R", "_", "C", "O", "N", "D", "I", "T", "I", "O", "N">>
TypeWherePayload ==
    <<"L", "I", "S", "T", "_", "I", "N", "P", "U", "T", "_", "W", "H", "E", "R", "E", "_", "P", "A", "Y", "L", "O", "A", "D">>
TypeRelationCondition ==
    <<"_", "W", "H", "E", "R", "E", "_", "R", "E", "L", "A", "T", "I", "O", "N", "_", "F", "I", "L", "T", "E", "R", "_", "C", "O", "N", "D", "I", "T", "I", "O", "N">>
TypeCountKeyCondition ==
    <<"L", "I", "S", "T", "_", "C", "O", "U", "N", "T", "_", "K", "E", "Y", "_", "C", "O", "N", "D", "I", "T", "I", "O", "N">>
TypeCountWherePayload ==
    <<"L", "I", "S", "T", "_", "C", "O", "U", "N", "T", "_", "I", "N", "P", "U", "T", "_", "W", "H", "E", "R", "E", "_", "P", "A", "Y", "L", "O", "A", "D">>
TypeSortPayload ==
    <<"L", "I", "S", "T", "_", "I", "N", "P", "U", "T", "_", "S", "O", "R", "T", "_", "P", "A", "Y", "L", "O", "A", "D">>
TypeInt ==
    <<"I", "n", "t">>
TypeLocalEnum ==
    <<"L", "O", "C", "A", "L", "_", "T", "Y", "P", "E", "_", "E", "N", "U", "M">>
VarId ==
    <<"i", "d">>
VarIds ==
    <<"i", "d", "s">>
VarPayload ==
    <<"p", "a", "y", "l", "o", "a", "d">>
VarPayloads ==
    <<"p", "a", "y", "l", "o", "a", "d", "s">>
VarConnect ==
    <<"c", "o", "n", "n", "e", "c", "t">>
VarDisconnect ==
    <<"d", "i", "s", "c", "o", "n", "n", "e", "c", "t">>
VarDeltaUpdate ==
    <<"d", "e", "l", "t", "a", "U", "p", "d", "a", "t", "e">>
Digits ==
    <<"0", "1", "2", "3", "4", "5", "6", "7", "8", "9">>
AliasSeparator ==
    <<":", " ">>
BraceOpen ==
    <<" ", "{", " ">>
BraceClose ==
    <<" ", "}">>
FieldId ==
    <<"i", "d">>
NewLine ==
    <<"\n">>

(***************************************************************************)
(* Texts the environment supplies: resource names, record ids, messages    *)
(* of transport errors, of payload-embedded errors and of thrown values    *)
(***************************************************************************)
ResProduct ==
    <<"p", "r", "o", "d", "u", "c", "t">>
ResProducts ==
    <<"p", "r", "o", "d", "u", "c", "t", "s">>
KeyItems ==
    <<"i", "t", "e", "m", "s">>
IdOne ==
    <<"r", "1">>
GqlMsgPlain ==
    <<"G", "r", "a", "p", "h", "Q", "L", " ", "E", "r", "r", "o", "r">>
GqlMsgNotAuthorized ==
    <<"N", "o", "t", " ", "a", "u", "t", "h", "o", "r", "i", "z", "e", "d">>
GqlMsgInvalidToken ==
    <<"I", "n", "v", "a", "l", "i", "d", " ", "T", "O", "K", "E", "N">>
GqlMsgForbidden ==
    <<"f", "o", "r", "b", "i", "d", "d", "e", "n">>
NetMsgFailedToFetch ==
    <<"F", "a", "i", "l", "e", "d", " ", "t", "o", " ", "f", "e", "t", "c", "h">>
DataErrRelations ==
    <<"1", " ", "r", "e", "l", "a", "t", "i", "o", "n", "s", " ", "e", "x", "i", "s", "t">>
DataErrInvalid ==
    <<"i", "n", "v", "a", "l", "i", "d", " ", "p", "a", "y", "l", "o", "a", "d">>
ThrownMsgBoom ==
    <<"B", "o", "o", "m">>
MsgTypeError ==
    <<"C", "a", "n", "n", "o", "t", " ", "r", "e", "a", "d", " ", "p", "r", "o", "p", "e", "r", "t", "i", "e", "s", " ", "o", "f", " ", "u", "n", "d", "e", "f", "i", "n", "e", "d">>
UpperLetters ==
    <<"A", "B", "C", "D", "E", "F", "G", "H", "I", "J", "K", "L", "M", "N", "O", "P", "Q", "R", "S", "T", "U", "V", "W", "X", "Y", "Z">>
LowerLetters ==
    <<"a", "b", "c", "d", "e", "f", "g", "h", "i", "j", "k", "l", "m", "n", "o", "p", "q", "r", "s", "t", "u", "v", "w", "x", "y", "z">>
KeyTotal ==
    <<"t", "o", "t", "a", "l">>
KeyData ==
    <<"d", "a", "t", "a">>
KeyId ==
    <<"i", "d">>
KeyMessage ==
    <<"m", "e", "s", "s", "a", "g", "e">>
\* field names, operators, values and sort orders of the callers' conditions
FldName ==
    <<"n", "a", "m", "e">>
FldDataName ==
    <<"d", "a", "t", "a", ".", "n", "a", "m", "e">>
FldPrice ==
    <<"p", "r", "i", "c", "e">>
FldRelCategoryName ==
    <<"r", "e", "l", "a", "t", "i", "o", "n", ".", "c", "a", "t", "e", "g", "o", "r", "y", ".", "n", "a", "m", "e">>
OpNe ==
    <<"n", "e">>
ValAbc ==
    <<"a", "b", "c">>
OrdAsc ==
    <<"a", "s", "c">>
OrdDesc ==
    <<"d", "e", "s", "c">>
KeyLocale ==
    <<"l", "o", "c", "a", "l", "e">>
KeyIndex0 ==
    <<"0">>
KeyIndex2 ==
    <<"2">>
KeyIndex10 ==
    <<"1", "0">>

(***************************************************************************)
(* JavaScript strings                                                      *)
(***************************************************************************)
\* one character of String.prototype.toLowerCase
toLowerCaseChar(c) ==
    IF \E i \in 1..Len(UpperLetters) : UpperLetters[i] = c
    THEN LowerLetters[CHOOSE i \in 1..Len(UpperLetters) : UpperLetters[i] = c]
    ELSE c

\* one character of String.prototype.toUpperCase
toUpperCaseChar(c) ==
    IF \E i \in 1..Len(LowerLetters) : LowerLetters[i] = c
    THEN UpperLetters[CHOOSE i \in 1..Len(LowerLetters) : LowerLetters[i] = c]
    ELSE c

\* String.prototype.toLowerCase
toLowerCase(s) ==
    IF Len(s) = 0 THEN <<>> ELSE [i \in 1..Len(s) |-> toLowerCaseChar(s[i])]

\* String.prototype.includes
includes(s, sub) ==
    \E i \in 0..(Len(s) - Len(sub)) : SubSeq(s, i + 1, i + Len(sub)) = sub

\* Array.prototype.join on an array of strings
RECURSIVE join(_, _)
join(strs, sep) ==
    IF Len(strs) = 0 THEN <<>>
    ELSE IF Len(strs) = 1 THEN strs[1]
    ELSE strs[1] \o sep \o join(Tail(strs), sep)

\* s.charAt(0).toUpperCase() + s.slice(1)
capitalize(s) ==
    IF Len(s) = 0 THEN <<>> ELSE <<toUpperCaseChar(s[1])>> \o Tail(s)

(***************************************************************************)
(* JavaScript values of a response payload                                 *)
(***************************************************************************)
Undefined == [t |-> "undefined"]
Null == [t |-> "null"]
Num(n) == [t |-> "number", n |-> n]
Bool(b) == [t |-> "boolean", b |-> b]
Str(s) == [t |-> "string", s |-> s]
Arr(items) == [t |-> "array", items |-> items]
Obj(props) == [t |-> "object", props |-> props]
EmptyObj == [t |-> "object", props |-> <<>>]

\* x === undefined || x === null
Nullish(v) == v.t \in {"undefined", "null"}

\* a ?? b
Coalesce(a, b) == IF Nullish(a) THEN b ELSE a

\* the truthiness of a value
Truthy(v) ==
    CASE v.t \in {"undefined", "null"} -> FALSE
      [] v.t = "number" -> v.n # 0
      [] v.t = "string" -> Len(v.s) > 0
      [] v.t = "boolean" -> v.b
      [] OTHER -> TRUE

\* Array.isArray
isArray(v) == v.t = "array"

\* k in v, for v an object or an array and k a property name that is not an index
HasProp(v, k) == v.t = "object" /\ k \in DOMAIN v.props

\* v?.[k]: undefined when v is nullish or has no property k
Get(v, k) == IF HasProp(v, k) THEN v.props[k] ELSE Undefined

\* String.prototype.toUpperCase
toUpperCase(s) == [i \in 1..Len(s) |-> toUpperCaseChar(s[i])]

\* String.prototype.startsWith
startsWith(s, prefix) ==
    Len(s) >= Len(prefix) /\ SubSeq(s, 1, Len(prefix)) = prefix

\* String.prototype.indexOf, counted from 1; 0 when sub does not occur
indexOf(s, sub) ==
    LET at(i) == SubSeq(s, i, i + Len(sub) - 1) = sub
        places == {i \in 1..(Len(s) - Len(sub) + 1) : at(i)}
    IN  IF places = {} THEN 0
        ELSE CHOOSE i \in places : \A j \in places : i <= j

\* String.prototype.replace with a string pattern: the first occurrence only
replace(s, pattern, replacement) ==
    LET i == indexOf(s, pattern)
    IN  IF i = 0 THEN s
        ELSE SubSeq(s, 1, i - 1) \o replacement
                 \o SubSeq(s, i + Len(pattern), Len(s))

\* String.prototype.split with a non-empty separator
RECURSIVE split(_, _)
split(s, separator) ==
    LET i == indexOf(s, separator)
    IN  IF i = 0 THEN <<s>>
        ELSE <<SubSeq(s, 1, i - 1)>>
                 \o split(SubSeq(s, i + Len(separator), Len(s)), separator)

\* Object.assign(target, source), and { ...target, ...source }: the own
\* properties of source replace those of target, one level deep
assign(target, source) == Obj(source.props @@ target.props)

\* target[k] = v
setProp(target, k, v) == Obj((k :> v) @@ target.props)

\* { [k]: v }
Single(k, v) == Obj(k :> v)

\* Object.keys(v).length for an object or an array
keysLength(v) ==
    IF v.t = "array" THEN Len(v.items) ELSE Cardinality(DOMAIN v.props)

\* the number an integer-like property name stands for
RECURSIVE indexValue(_)
indexValue(k) ==
    IF Len(k) = 0 THEN 0
    ELSE 10 * indexValue(SubSeq(k, 1, Len(k) - 1))
           + (CHOOSE d \in 0..9 : Digits[d + 1] = k[Len(k)])

\* Object.values of an object whose property names are all integer-like:
\* such properties are visited in ascending numeric order
RECURSIVE valuesAscending(_, _)
valuesAscending(props, keys) ==
    IF keys = {} THEN <<>>
    ELSE LET k == CHOOSE x \in keys : \A y \in keys : indexValue(x) <= indexValue(y)
         IN  <<props[k]>> \o valuesAscending(props, keys \ {k})

objectValues(v) == valuesAscending(v.props, DOMAIN v.props)

(***************************************************************************)
(* The error classifier                                                    *)
(***************************************************************************)
\* an HttpError {message, statusCode}
HttpError(message, statusCode) ==
    [message |-> message, statusCode |-> Some(statusCode)]

\* a || b on optional numbers: a when it is defined and not 0, else b
NumOr(a, b) == IF IsSome(a) /\ a[1] # 0 THEN a ELSE b

\* a slip of networkStatusCode: only statusCode is read, status is ignored
networkStatusCode_IgnoresStatus(networkError) ==
    networkError.statusCode

\* networkError.statusCode || networkError.status
networkStatusCode(networkError) ==
    NumOr(networkError.statusCode, networkError.status)

\* a slip of networkErrorResult: the status is always reported as 503
networkErrorResult_Always503(networkError, statusCode) ==
    HttpError(MsgNetworkPrefix \o networkError.message, 503)

\* the result of the non-authentication network branch
networkErrorResult(networkError, statusCode) ==
    HttpError(MsgNetworkPrefix \o networkError.message,
              NumOr(statusCode, Some(503))[1])

\* a slip of hasAuthError: the keywords are searched without toLowerCase
hasAuthError_CaseSensitive(graphQLErrors) ==
    \E i \in 1..Len(graphQLErrors) :
        \/ includes(graphQLErrors[i].message, KwUnauthorized)
        \/ includes(graphQLErrors[i].message, KwForbidden)
        \/ includes(graphQLErrors[i].message, KwToken)
        \/ includes(graphQLErrors[i].message, KwAuthentication)
        \/ includes(graphQLErrors[i].message, KwAuthorization)

\* graphQLErrors.some(err => err.message.toLowerCase().includes(keyword) || ...)
hasAuthError(graphQLErrors) ==
    \E i \in 1..Len(graphQLErrors) :
        \/ includes(toLowerCase(graphQLErrors[i].message), KwUnauthorized)
        \/ includes(toLowerCase(graphQLErrors[i].message), KwForbidden)
        \/ includes(toLowerCase(graphQLErrors[i].message), KwToken)
        \/ includes(toLowerCase(graphQLErrors[i].message), KwAuthentication)
        \/ includes(toLowerCase(graphQLErrors[i].message), KwAuthorization)

\* graphQLErrors.map(err => err.message).join(', ')
graphQLErrorMessages(graphQLErrors) ==
    join([i \in 1..Len(graphQLErrors) |-> graphQLErrors[i].message], JoinSeparator)

\* handleGraphQLError(error, onTokenExpired): the HttpError it returns and the
\* number of times it invokes onTokenExpired (onTokenExpired?.() does nothing
\* when no callback was passed)
handleGraphQLError(error, onTokenExpired) ==
    IF ~IsSome(error)
    THEN [error |-> HttpError(MsgUnknownError, 500), expired |-> 0]
    ELSE IF IsSome(error[1].networkError)
    THEN LET statusCode == networkStatusCode(error[1].networkError[1])
         IN  IF statusCode = Some(403) \/ statusCode = Some(401)
             THEN [error |-> HttpError(MsgTokenExpired, 403),
                   expired |-> IF onTokenExpired THEN 1 ELSE 0]
             ELSE [error |-> networkErrorResult(error[1].networkError[1], statusCode),
                   expired |-> 0]
    ELSE IF Len(error[1].graphQLErrors) > 0
    THEN IF hasAuthError(error[1].graphQLErrors)
         THEN [error |-> HttpError(MsgAuthFailed, 403),
               expired |-> IF onTokenExpired THEN 1 ELSE 0]
         ELSE [error |-> HttpError(graphQLErrorMessages(error[1].graphQLErrors), 400),
               expired |-> 0]
    ELSE [error |-> HttpError(IF Len(error[1].message) > 0 THEN error[1].message
                                                        ELSE MsgFallback, 400),
          expired |-> 0]

(***************************************************************************)
(* Naming                                                                  *)
(***************************************************************************)
\* pluralize.singular, for the regular nouns used as resource names
singular(word) ==
    IF Len(word) > 1 /\ word[Len(word)] = "s"
    THEN SubSeq(word, 1, Len(word) - 1)
    ELSE word

\* the name used in the synthesized mutations: the capitalized singular resource
mutationName(resource) == capitalize(singular(resource))

(***************************************************************************)
(* The environment: calls, transport errors, payloads, thrown values       *)
(***************************************************************************)
Range(s) == {s[i] : i \in 1..Len(s)}

Resources == {ResProduct, ResProducts}

\* the i-th record of a list and the i-th entry of an embedded errors array
RecordAt(i) == Obj(KeyId :> Num(i))
Records(n) == IF n = 0 THEN <<>> ELSE [i \in 1..n |-> RecordAt(i)]
DataErrorAt(i) ==
    Obj(KeyMessage :> Str(IF i % 2 = 1 THEN DataErrRelations ELSE DataErrInvalid))
DataErrors(n) == IF n = 0 THEN <<>> ELSE [i \in 1..n |-> DataErrorAt(i)]

\* what the backend may return under a field of the document
FieldValues ==
    {Null} \cup {Arr(Records(n)) : n \in 0..MaxRecords}
           \cup {EmptyObj, Obj(KeyTotal :> Num(1)), Obj(KeyTotal :> Num(57)),
                 Obj(KeyId :> Num(1)),
                 Obj(KeyId :> Num(1) @@ KeyData :> RecordAt(1))}

\* what the backend may return under the payload's errors key
ErrorsValues == {Null} \cup {Arr(DataErrors(n)) : n \in 0..MaxDataErrors}

\* the payloads a backend may answer a document with these top-level fields
PayloadsFor(fields) ==
    { Obj(props) : props \in UNION { { f \in [S -> FieldValues \cup ErrorsValues] :
                                          \A k \in S : IF k = KeyErrors
                                                       THEN f[k] \in ErrorsValues
                                                       ELSE f[k] \in FieldValues }
                                      : S \in SUBSET (Range(fields) \cup {KeyErrors}) } }

GraphQLMessages == {GqlMsgPlain, GqlMsgNotAuthorized, GqlMsgInvalidToken, GqlMsgForbidden}

GraphQLErrorLists ==
    UNION { [1..n -> [message : GraphQLMessages]] : n \in 0..MaxGraphQLErrors }

NetworkErrors ==
    [statusCode : {None, Some(0), Some(401), Some(500)},
     status : {None, Some(0), Some(403)},
     message : {NetMsgFailedToFetch}]

\* the CombinedError objects of urql
CombinedErrors ==
    [networkError : {None} \cup {Some(n) : n \in NetworkErrors},
     graphQLErrors : GraphQLErrorLists,
     message : {<<>>, ThrownMsgBoom}]

\* values an internal step may throw: an Error without statusCode, or an
\* HttpError-like object with a numeric statusCode
ThrownValues ==
    [message : {<<>>, ThrownMsgBoom}, statusCode : {None, Some(404), Some(500)}]

\* a payload returned together with a transport error
PartialPayload == Obj(KeyErrors :> Arr(DataErrors(1)))

\* what awaiting client.query(...).toPromise() / client.mutation(...).toPromise()
\* may produce for a document
TransportResults(fields) ==
    {[kind |-> "response", error |-> None, data |-> d] :
        d \in PayloadsFor(fields) \cup {Undefined}}
    \cup {[kind |-> "response", error |-> Some(e), data |-> d] :
        e \in CombinedErrors, d \in {Undefined, PartialPayload}}
    \cup {[kind |-> "throw", value |-> v] : v \in ThrownValues}

\* the token of getApiClient when localStorage holds none
MsgNotSet ==
    <<"n", "o", "t", "-", "s", "e", "t">>

\* the urls and tokens the environment passes to apitoDataProvider and keeps
\* in localStorage
UrlOne ==
    <<"h", "t", "t", "p", "s", ":", "/", "/", "a", ".", "i", "o">>
UrlTwo ==
    <<"h", "t", "t", "p", "s", ":", "/", "/", "b", ".", "i", "o">>
TokenOne ==
    <<"t", "1">>
TokenTwo ==
    <<"t", "2">>
TokenThree ==
    <<"t", "3">>

NoResponse == [kind |-> "none"]
NoCall == [op |-> "none"]
Pending == [status |-> "pending"]
Resolve(value) == [status |-> "resolved", value |-> value]
Reject(error) == [status |-> "rejected", error |-> error]

(***************************************************************************)
(* State                                                                   *)
(***************************************************************************)
VARIABLES
    hasOnTokenExpired,  \* whether onTokenExpired was passed to apitoDataProvider
    pc,                 \* "idle", "awaiting" (suspended at the await) or "settled"
    call,               \* the parameters of the current call
    requests,           \* the requests the current call issued to the transport
    response,           \* what the transport answered
    outcome,            \* pending, or what the returned promise settled with
    classified,         \* the invocations of handleGraphQLError in the current call
    expired,            \* the invocations of onTokenExpired in the current call
    constructed,        \* the arguments apitoDataProvider was called with
    apiUrl,             \* the binding apiUrl of the provider's closure
    token,              \* the binding token of the provider's closure
    stored,             \* the item of localStorage under tokenKey, if any
    returned,           \* what the latest call of an accessor returned, if any
    inflight,           \* the calls running side by side, by slot
    sent                \* the latest request sent under the tenant variant, if any

\* the provider's closure and what surrounds it
provider == <<hasOnTokenExpired, constructed, apiUrl, token, stored, returned, inflight, sent>>

vars == <<pc, call, requests, response, outcome, classified, expired, provider>>

\* no call of the one-at-a-time handlers is under way
NoCalls ==
    /\ pc = "idle"
    /\ call = NoCall
    /\ requests = <<>>
    /\ response = NoResponse
    /\ outcome = Pending
    /\ classified = <<>>
    /\ expired = 0

\* the arguments of apitoDataProvider; tenant is absent in the variant that
\* takes onTokenExpired
Arguments(url, tok, tenantFlag) == [apiUrl |-> url, token |-> tok, tenant |-> tenantFlag]

\* the closure right after apitoDataProvider(args) returned
Constructed(args) ==
    /\ constructed = args
    /\ apiUrl = args.apiUrl
    /\ token = args.token
    /\ returned = None
    /\ sent = None

\* no call runs in any slot
NoneInFlight == inflight = <<>>

Init ==
    /\ hasOnTokenExpired \in BOOLEAN
    /\ NoCalls
    /\ Constructed(Arguments(UrlOne, TokenOne, None))
    /\ stored = None
    /\ NoneInFlight

(***************************************************************************)
(* Pieces shared by the handlers                                           *)
(***************************************************************************)
\* what a handler does after the await: how the promise settles and the
\* invocations of the classifier it made
Done(out) == [outcome |-> out, classified |-> <<>>]

\* return Promise.reject(handleGraphQLError(error, onTokenExpired))
RejectClassified(error, onTokenExpired) ==
    LET h == handleGraphQLError(error, onTokenExpired)
    IN  [outcome |-> Reject(h.error),
         classified |-> <<[error |-> error, onTokenExpired |-> onTokenExpired,
                           result |-> h.error, expired |-> h.expired]>>]

\* a slip of catchBoundary: every caught error is wrapped with statusCode 500
catchBoundary_AlwaysWraps(error, fallback) ==
    HttpError(IF Len(error.message) > 0 THEN error.message ELSE fallback, 500)

\* a slip of catchBoundary: the caught error is rejected as it is
catchBoundary_Rethrows(error, fallback) ==
    error

\* the catch block of an operation: an error with a statusCode is rejected as
\* is, any other is wrapped with statusCode 500
catchBoundary(error, fallback) ==
    IF IsSome(error.statusCode)
    THEN error
    ELSE HttpError(IF Len(error.message) > 0 THEN error.message ELSE fallback, 500)

\* the TypeError raised by reading a property of undefined
TypeError == [message |-> MsgTypeError, statusCode |-> None]

\* response.data.errors.map(err => err.message).join(', ')
dataErrorMessages(errors) ==
    join([i \in 1..Len(errors.items) |-> Get(errors.items[i], KeyMessage).s],
         JoinSeparator)

\* response.data?.errors && Array.isArray(response.data.errors)
hasDataErrors(data) ==
    Truthy(Get(data, KeyErrors)) /\ isArray(Get(data, KeyErrors))

\* a slip of Issue: the request is sent a second time
Issue_Retries(c, request) ==
    /\ call' = c
    /\ requests' = <<request, request>>
    /\ pc' = "awaiting"
    /\ response' = NoResponse
    /\ outcome' = Pending
    /\ classified' = <<>>
    /\ expired' = 0
    /\ UNCHANGED provider

\* the start of a call: the request is issued and the handler suspends
Issue(c, request) ==
    /\ call' = c
    /\ requests' = <<request>>
    /\ pc' = "awaiting"
    /\ response' = NoResponse
    /\ outcome' = Pending
    /\ classified' = <<>>
    /\ expired' = 0
    /\ UNCHANGED provider

\* a call that settles before any request is issued
SettleEarly(c, out) ==
    /\ call' = c
    /\ requests' = <<>>
    /\ pc' = "settled"
    /\ response' = NoResponse
    /\ outcome' = out
    /\ classified' = <<>>
    /\ expired' = 0
    /\ UNCHANGED provider

\* the invocations of onTokenExpired made by a sequence of classifier invocations
RECURSIVE SumExpired(_)
SumExpired(invocations) ==
    IF Len(invocations) = 0 THEN 0
    ELSE invocations[1].expired + SumExpired(Tail(invocations))

\* the end of a call: the transport answered tr and the handler ran to its end
Finish(tr, r) ==
    /\ response' = tr
    /\ outcome' = r.outcome
    /\ classified' = r.classified
    /\ expired' = expired + SumExpired(r.classified)
    /\ pc' = "settled"
    /\ UNCHANGED <<provider, call, requests>>

\* the event loop is single-threaded and the model runs one call at a time
CanCall == pc = "idle"

\* the caller has observed the settled promise; the provider keeps nothing of
\* the call
Return ==
    /\ pc = "settled"
    /\ pc' = "idle"
    /\ call' = NoCall
    /\ requests' = <<>>
    /\ response' = NoResponse
    /\ outcome' = Pending
    /\ classified' = <<>>
    /\ expired' = 0
    /\ UNCHANGED provider

\* a document the caller wrote, known by its top-level fields
CallerDocument(fields) == [source |-> "caller", fields |-> fields]

\* a document a handler wrote, by its top-level fields
SynthesizedDocument(fields) == [source |-> "synthesized", fields |-> fields]

\* what a handler hands to client.query or client.mutation
Request(kind, document, variables) ==
    [kind |-> kind, document |-> document, variables |-> variables]

\* the parameters of a call
Params(op, resource) ==
    [op |-> op, resource |-> resource, id |-> IdOne, variables |-> Undefined,
     gqlQuery |-> FALSE, gqlMutation |-> FALSE, docFields |-> <<>>, queryKey |-> None,
     filters |-> None, sorters |-> None, pagination |-> None,
     fields |-> None, connectionFields |-> <<>>, aliasFields |-> EmptyObj,
     reverseLookup |-> Undefined, deltaUpdate |-> Undefined,
     metaVariables |-> Undefined, gqlVariables |-> Undefined]

(***************************************************************************)
(* The filter compiler of getList.  A condition is a record of an optional *)
(* field, an optional operator and a value; the value of a group is an     *)
(* array of conditions.                                                    *)
(***************************************************************************)
Condition(field, operator, value) ==
    [field |-> field, operator |-> operator, value |-> value]

\* a slip of adjustedField: the prefix is kept
adjustedField_KeepsPrefix(field) == field

\* field.startsWith('data.') ? field.replace('data.', '') : field
adjustedField(field) ==
    IF startsWith(field, PrefixData) THEN replace(field, PrefixData, <<>>) ELSE field

\* field && operator && value !== undefined
subConditionUsable(condition) ==
    /\ IsSome(condition.field) /\ Len(condition.field[1]) > 0
    /\ IsSome(condition.operator) /\ Len(condition.operator[1]) > 0
    /\ condition.value # Undefined

\* the forEach of the eq-with-array branch: nestedCondition[subField][subOperator] = subValue
RECURSIVE nestedCondition(_, _)
nestedCondition(acc, conditions) ==
    IF Len(conditions) = 0 THEN acc
    ELSE LET c == conditions[1]
             subField == c.field[1]
             entry == IF Truthy(Get(acc, subField)) THEN Get(acc, subField) ELSE EmptyObj
         IN  nestedCondition(
                 IF subConditionUsable(c)
                 THEN setProp(acc, subField, setProp(entry, c.operator[1], c.value))
                 ELSE acc,
                 Tail(conditions))

\* the forEach of the or / and branches: conditions[adjustedField] = { [operator]: value }
RECURSIVE groupConditions(_, _)
groupConditions(acc, conditions) ==
    IF Len(conditions) = 0 THEN acc
    ELSE LET c == conditions[1]
         IN  groupConditions(
                 IF subConditionUsable(c)
                 THEN setProp(acc, adjustedField(c.field[1]), Single(c.operator[1], c.value))
                 ELSE acc,
                 Tail(conditions))

\* operator && value !== undefined
hasOperatorAndValue(filter) ==
    IsSome(filter.operator) /\ Len(filter.operator[1]) > 0 /\ filter.value # Undefined

\* the nested object of a relation path; the leaf is set only when the
\* condition has an operator and a defined value
RECURSIVE relationCondition(_, _)
relationCondition(relationPath, filter) ==
    IF Len(relationPath) = 1
    THEN IF hasOperatorAndValue(filter)
         THEN Single(relationPath[1], Single(filter.operator[1], filter.value))
         ELSE EmptyObj
    ELSE Single(relationPath[1], relationCondition(Tail(relationPath), filter))

processFilter(filter) ==
    LET field == filter.field
        operator == filter.operator
        value == filter.value
    IN  IF operator = Some(OpEq) /\ isArray(value)
        THEN Single(field[1], nestedCondition(EmptyObj, value.items))
        ELSE IF operator = Some(OpOr) /\ isArray(value)
        THEN Single(KeyOR, groupConditions(EmptyObj, value.items))
        ELSE IF operator = Some(OpAnd) /\ isArray(value)
        THEN Single(KeyAND, groupConditions(EmptyObj, value.items))
        ELSE IF field = Some(FieldKey)
        THEN Single(FieldKey,
                    Single(IF IsSome(operator) /\ Len(operator[1]) > 0
                           THEN operator[1] ELSE OpEq,
                           value))
        ELSE IF IsSome(field) /\ includes(field[1], MarkRelation)
        THEN Single(KeyRelation,
                    relationCondition(split(replace(field[1], MarkRelation, <<>>), Dot),
                                      filter))
        ELSE IF hasOperatorAndValue(filter)
        THEN Single(adjustedField(field[1]), Single(operator[1], value))
        ELSE EmptyObj

\* a slip of applyFilter: nothing is extracted, every compiled condition is
\* merged into where
applyFilter_AllIntoWhere(acc, filter) ==
    [acc EXCEPT !.where = assign(acc.where, processFilter(filter))]

\* one round of the forEach over the filters
applyFilter(acc, filter) ==
    LET processed == processFilter(filter)
    IN  IF Truthy(Get(processed, FieldKey))
        THEN [acc EXCEPT !.key = Get(processed, FieldKey)]
        ELSE IF Truthy(Get(processed, KeyRelation))
        THEN [acc EXCEPT !.relationWhere =
                 assign(IF Truthy(acc.relationWhere) THEN acc.relationWhere ELSE EmptyObj,
                        Get(processed, KeyRelation))]
        ELSE IF Truthy(Get(processed, KeyOR))
        THEN [acc EXCEPT !.where = setProp(acc.where, KeyOR, Get(processed, KeyOR))]
        ELSE IF Truthy(Get(processed, KeyAND))
        THEN [acc EXCEPT !.where = setProp(acc.where, KeyAND, Get(processed, KeyAND))]
        ELSE [acc EXCEPT !.where = assign(acc.where, processed)]

RECURSIVE applyFilters(_, _)
applyFilters(acc, filters) ==
    IF Len(filters) = 0 THEN acc
    ELSE applyFilters(applyFilter(acc, filters[1]), Tail(filters))

\* _key, relationWhere and where after the loop; filters is None when the
\* caller passes none
compileFilters(filters) ==
    LET start == [key |-> Null, relationWhere |-> Null, where |-> EmptyObj]
    IN  IF IsSome(filters) /\ Len(filters[1]) > 0
        THEN applyFilters(start, filters[1])
        ELSE start

(***************************************************************************)
(* getList                                                                 *)
(***************************************************************************)
\* the top-level fields of the synthesized list document
getListFields(resource) == <<resource \o SufList, resource \o SufListCount>>

\* a || b
Or(a, b) == IF Truthy(a) THEN a ELSE b

\* one line of generateConnectionFields
connectionLine(entry, aliasFields) ==
    IF Truthy(Get(aliasFields, entry.key))
    THEN entry.key \o AliasSeparator \o Get(aliasFields, entry.key).s
             \o BraceOpen \o entry.fields \o BraceClose
    ELSE entry.key \o BraceOpen \o entry.fields \o BraceClose

\* a slip of generateConnectionFields: aliasFields is not consulted
generateConnectionFields_IgnoresAlias(connectionFields, aliasFields) ==
    join([i \in 1..Len(connectionFields) |-> connectionLine(connectionFields[i], EmptyObj)],
         NewLine)

\* connectionFields is the sequence of its properties in the order of Object.keys
generateConnectionFields(connectionFields, aliasFields) ==
    join([i \in 1..Len(connectionFields) |-> connectionLine(connectionFields[i], aliasFields)],
         NewLine)

\* [a, null, b].filter(Boolean): the entries whose condition holds, in order
RECURSIVE filterBoolean(_)
filterBoolean(entries) ==
    IF Len(entries) = 0 THEN <<>>
    ELSE (IF entries[1].present THEN <<entries[1].entry>> ELSE <<>>)
             \o filterBoolean(Tail(entries))

Always(entry) == [present |-> TRUE, entry |-> entry]
When(condition, entry) == [present |-> condition, entry |-> entry]
Declare(variable, type) == [variable |-> variable, type |-> type]
Pass(argument, variable) == [argument |-> argument, variable |-> variable]

\* a slip of queryVariables: the key and relation variables are always declared
queryVariables_AlwaysAll(resource, hasKey, hasRelationWhere) ==
    LET RES == toUpperCase(resource)
    IN  <<Declare(VarKey, RES \o TypeKeyCondition),
          Declare(VarConnection, RES \o TypeConnectionCondition),
          Declare(VarWhere, RES \o TypeWherePayload),
          Declare(VarRelationWhere, RES \o TypeRelationCondition),
          Declare(VarKeyCount, RES \o TypeCountKeyCondition),
          Declare(VarWhereCount, RES \o TypeCountWherePayload),
          Declare(VarRelationWhereCount, RES \o TypeRelationCondition),
          Declare(VarSort, RES \o TypeSortPayload),
          Declare(VarPage, TypeInt),
          Declare(VarLimit, TypeInt),
          Declare(VarLocal, TypeLocalEnum)>>

\* the variable declarations of the list document
queryVariables(resource, hasKey, hasRelationWhere) ==
    LET RES == toUpperCase(resource)
    IN  filterBoolean(<<
          When(hasKey, Declare(VarKey, RES \o TypeKeyCondition)),
          Always(Declare(VarConnection, RES \o TypeConnectionCondition)),
          Always(Declare(VarWhere, RES \o TypeWherePayload)),
          When(hasRelationWhere, Declare(VarRelationWhere, RES \o TypeRelationCondition)),
          When(hasKey, Declare(VarKeyCount, RES \o TypeCountKeyCondition)),
          Always(Declare(VarWhereCount, RES \o TypeCountWherePayload)),
          When(hasRelationWhere,
               Declare(VarRelationWhereCount, RES \o TypeRelationCondition)),
          Always(Declare(VarSort, RES \o TypeSortPayload)),
          Always(Declare(VarPage, TypeInt)),
          Always(Declare(VarLimit, TypeInt)),
          Always(Declare(VarLocal, TypeLocalEnum))>>)

\* the arguments of the List field
queryArguments(hasKey, hasRelationWhere) ==
    filterBoolean(<<
        When(hasKey, Pass(VarKey, VarKey)),
        Always(Pass(VarConnection, VarConnection)),
        Always(Pass(VarWhere, VarWhere)),
        When(hasRelationWhere, Pass(KeyRelation, VarRelationWhere)),
        Always(Pass(VarSort, VarSort)),
        Always(Pass(VarPage, VarPage)),
        Always(Pass(VarLimit, VarLimit)),
        Always(Pass(VarLocal, VarLocal))>>)

\* the arguments of the ListCount field
countArguments(hasKey, hasRelationWhere) ==
    filterBoolean(<<
        When(hasKey, Pass(VarKey, VarKeyCount)),
        Always(Pass(VarConnection, VarConnection)),
        Always(Pass(VarWhere, VarWhereCount)),
        When(hasRelationWhere, Pass(KeyRelation, VarRelationWhereCount)),
        Always(Pass(VarPage, VarPage)),
        Always(Pass(VarLimit, VarLimit))>>)

\* a slip of sortOf: the first of two sorters of one field wins
RECURSIVE sortOf_FirstWins(_, _)
sortOf_FirstWins(acc, sorters) ==
    IF Len(sorters) = 0 THEN acc
    ELSE LET s == sorters[1]
         IN  sortOf_FirstWins(
                 IF IsSome(s.field) /\ Len(s.field[1]) > 0
                    /\ IsSome(s.order) /\ Len(s.order[1]) > 0
                    /\ ~HasProp(acc, s.field[1])
                 THEN setProp(acc, s.field[1], Str(toUpperCase(s.order[1])))
                 ELSE acc,
                 Tail(sorters))

\* sorters.reduce((acc, sorter) => { if (field && order) acc[field] = order.toUpperCase() }, {})
RECURSIVE sortOf(_, _)
sortOf(acc, sorters) ==
    IF Len(sorters) = 0 THEN acc
    ELSE LET s == sorters[1]
         IN  sortOf(
                 IF IsSome(s.field) /\ Len(s.field[1]) > 0
                    /\ IsSome(s.order) /\ Len(s.order[1]) > 0
                 THEN setProp(acc, s.field[1], Str(toUpperCase(s.order[1])))
                 ELSE acc,
                 Tail(sorters))

\* pagination?.k: undefined when the caller passes no pagination
pageField(pagination, k) == IF IsSome(pagination) THEN pagination[1][k] ELSE Undefined

\* a slip of pageOf: pagination.page is preferred to pagination.current
pageOf_PageFirst(pagination) ==
    Or(Or(pageField(pagination, "page"), pageField(pagination, "current")), Num(1))

\* pagination?.current || pagination?.page || 1
pageOf(pagination) ==
    Or(Or(pageField(pagination, "current"), pageField(pagination, "page")), Num(1))

\* pagination?.pageSize || pagination?.size || 10
limitOf(pagination) ==
    Or(Or(pageField(pagination, "pageSize"), pageField(pagination, "size")), Num(10))

\* the variables of the synthesized list request
getListVariables(c) ==
    LET compiled == compileFilters(c.filters)
        hasKey == compiled.key # Null
        hasRelationWhere == compiled.relationWhere # Null
        entries == filterBoolean(<<
            When(hasKey, Pass(VarKey, compiled.key)),
            Always(Pass(VarConnection, Or(Or(c.reverseLookup, EmptyObj), EmptyObj))),
            Always(Pass(VarWhere, Or(compiled.where, EmptyObj))),
            When(hasRelationWhere, Pass(VarRelationWhere, compiled.relationWhere)),
            Always(Pass(VarWhereCount, Or(compiled.where, EmptyObj))),
            When(hasKey, Pass(VarKeyCount, compiled.key)),
            When(hasRelationWhere, Pass(VarRelationWhereCount, compiled.relationWhere)),
            Always(Pass(VarSort, IF IsSome(c.sorters)
                                 THEN sortOf(EmptyObj, c.sorters[1]) ELSE Undefined)),
            Always(Pass(VarPage, pageOf(c.pagination))),
            Always(Pass(VarLimit, limitOf(c.pagination)))>>)
    IN  Obj([k \in {e.argument : e \in Range(entries)} |->
                (CHOOSE e \in Range(entries) : e.argument = k).variable])

\* the synthesized list document
getListDocument(c) ==
    LET compiled == compileFilters(c.filters)
        hasKey == compiled.key # Null
        hasRelationWhere == compiled.relationWhere # Null
    IN  [source |-> "synthesized",
         fields |-> getListFields(c.resource),
         declarations |-> queryVariables(c.resource, hasKey, hasRelationWhere),
         arguments |-> <<queryArguments(hasKey, hasRelationWhere),
                         countArguments(hasKey, hasRelationWhere)>>,
         data |-> join(IF IsSome(c.fields) THEN c.fields[1] ELSE <<FieldId>>, NewLine),
         connections |-> generateConnectionFields(c.connectionFields, c.aliasFields)]

\* a slip of getListRequest: the caller's document and variables are ignored
getListRequest_AlwaysSynthesizes(c) ==
    Request("query", getListDocument(c), getListVariables(c))

\* what getList hands to client.query
getListRequest(c) ==
    IF c.gqlQuery
    THEN Request("query", CallerDocument(c.docFields), c.metaVariables)
    ELSE Request("query", getListDocument(c), getListVariables(c))

\* 'total' in (count || {}) ? count.total : 0
listTotal(count) ==
    IF HasProp(IF Truthy(count) THEN count ELSE EmptyObj, KeyTotal)
    THEN Get(count, KeyTotal)
    ELSE Num(0)

\* the result of the branch taken when meta.gqlQuery is given
getListCustomResult(c, data) ==
    LET queryKey == IF IsSome(c.queryKey) THEN c.queryKey[1] ELSE c.resource
        queryResponse == Get(data, queryKey)
        responseData == IF isArray(queryResponse) THEN queryResponse ELSE Arr(<<>>)
    IN  [data |-> responseData, total |-> Num(Len(responseData.items))]

\* a slip of getListResult: the total is the length of the returned page
getListResult_TotalFromLength(c, data) ==
    LET list == Coalesce(Get(data, c.resource \o SufList), Arr(<<>>))
    IN  [data |-> list,
         total |-> IF isArray(list) THEN Num(Len(list.items)) ELSE Num(0)]

\* the result of the branch that synthesizes the document
getListResult(c, data) ==
    [data |-> Coalesce(Get(data, c.resource \o SufList), Arr(<<>>)),
     total |-> listTotal(Get(data, c.resource \o SufListCount))]

getListSettle(c, tr, onTokenExpired) ==
    IF tr.kind = "throw"
    THEN Done(Reject(catchBoundary(tr.value, MsgFailedList)))
    ELSE IF IsSome(tr.error)
    THEN RejectClassified(tr.error, onTokenExpired)
    ELSE IF c.gqlQuery
    THEN Done(Resolve(getListCustomResult(c, tr.data)))
    ELSE Done(Resolve(getListResult(c, tr.data)))

\* the documents a caller may pass as meta.gqlQuery, by their top-level fields
CallerListDocuments(resource) ==
    {<<resource>>, <<KeyItems>>, <<resource, resource \o SufListCount>>}

GetListCall ==
    /\ CanCall
    /\ \E resource \in Resources :
          \/ LET c == Params("getList", resource)
             IN  Issue(c, getListRequest(c))
          \/ \E fields \in CallerListDocuments(resource), queryKey \in {None, Some(KeyItems)} :
                LET c == [Params("getList", resource) EXCEPT !.gqlQuery = TRUE,
                                                             !.docFields = fields,
                                                             !.queryKey = queryKey]
                IN  Issue(c, getListRequest(c))

GetListSettle ==
    /\ pc = "awaiting"
    /\ call.op = "getList"
    /\ \E tr \in TransportResults(requests[1].document.fields) :
          Finish(tr, getListSettle(call, tr, hasOnTokenExpired))

(***************************************************************************)
(* getOne                                                                  *)
(***************************************************************************)
getOneFields(resource) == <<singular(resource)>>

\* the synthesized document of getOne
getOneDocument(c) ==
    [source |-> "synthesized",
     fields |-> getOneFields(c.resource),
     data |-> join(IF IsSome(c.fields) THEN c.fields[1] ELSE <<FieldId>>, NewLine),
     connections |-> generateConnectionFields(c.connectionFields, c.aliasFields)]

\* what getOne hands to client.query
getOneRequest(c) ==
    Request("query", getOneDocument(c), Single(VarId, Str(c.id)))

getOneSettle(c, tr, onTokenExpired) ==
    IF tr.kind = "throw"
    THEN Done(Reject(catchBoundary(tr.value,
                        MsgFailedFetchPrefix \o c.resource \o MsgWithId \o c.id)))
    ELSE IF IsSome(tr.error)
    THEN RejectClassified(tr.error, onTokenExpired)
    ELSE Done(Resolve([data |-> Coalesce(Get(tr.data, singular(c.resource)), EmptyObj)]))

GetOneCall ==
    /\ CanCall
    /\ \E resource \in Resources :
          Issue(Params("getOne", resource), getOneRequest(Params("getOne", resource)))

GetOneSettle ==
    /\ pc = "awaiting"
    /\ call.op = "getOne"
    /\ \E tr \in TransportResults(requests[1].document.fields) :
          Finish(tr, getOneSettle(call, tr, hasOnTokenExpired))

(***************************************************************************)
(* create                                                                  *)
(***************************************************************************)
createFields(resource) == <<PreCreate \o mutationName(resource)>>

\* the variables a caller may pass to create and update
CallerVariables == {Undefined, Obj(KeyData :> RecordAt(1))}

\* the documents a caller may pass as meta.gqlMutation to create or update
CallerMutationDocuments(prefix, resource) ==
    {<<prefix \o capitalize(resource)>>, <<prefix \o mutationName(resource)>>}

\* variables ? variables : meta.variables
callerMutationVariables(c) ==
    IF Truthy(c.variables) THEN c.variables ELSE c.metaVariables

\* what create hands to client.mutation
createRequest(c) ==
    IF c.gqlMutation
    THEN Request("mutation", CallerDocument(c.docFields), callerMutationVariables(c))
    ELSE Request("mutation", SynthesizedDocument(createFields(c.resource)),
                 Obj(VarPayload :> Get(c.variables, KeyData)
                     @@ VarConnect :> Get(c.variables, VarConnect)))

createSettle(c, tr, onTokenExpired) ==
    IF tr.kind = "throw"
    THEN Done(Reject(catchBoundary(tr.value, MsgFailedCreatePrefix \o c.resource)))
    ELSE IF c.gqlMutation
    THEN IF IsSome(tr.error)
         THEN RejectClassified(tr.error, FALSE)
         ELSE Done(Resolve([data |->
                 Coalesce(Get(Get(tr.data, PreCreate \o capitalize(c.resource)), KeyData),
                          EmptyObj)]))
    ELSE IF IsSome(tr.error)
         THEN RejectClassified(tr.error, onTokenExpired)
         ELSE Done(Resolve([data |->
                 Coalesce(Get(tr.data, PreCreate \o mutationName(c.resource)), EmptyObj)]))

CreateCall ==
    /\ CanCall
    /\ \E resource \in Resources, variables \in CallerVariables :
          \/ \E fields \in CallerMutationDocuments(PreCreate, resource) :
                LET c == [Params("create", resource) EXCEPT !.variables = variables,
                                                            !.gqlMutation = TRUE,
                                                            !.docFields = fields]
                IN  Issue(c, createRequest(c))
          \/ LET c == [Params("create", resource) EXCEPT !.variables = variables]
             IN  IF Nullish(variables)
                 THEN \* variableData.data throws; the inner catch block rejects
                      SettleEarly(c, Reject(catchBoundary(TypeError,
                                         MsgFailedCreatePrefix \o resource)))
                 ELSE Issue(c, createRequest(c))

CreateSettle ==
    /\ pc = "awaiting"
    /\ call.op = "create"
    /\ \E tr \in TransportResults(requests[1].document.fields) :
          Finish(tr, createSettle(call, tr, hasOnTokenExpired))

(***************************************************************************)
(* createMany                                                              *)
(***************************************************************************)
createManyFields(resource) == <<PreUpsert \o mutationName(resource) \o SufList>>

\* typeof item === 'object', for an item that is not null
isObjectType(item) == item.t \in {"object", "array"}

\* a slip of cleanPayloads: only null and undefined entries are dropped
cleanPayloads_KeepsEmptyObjects(variables) ==
    IF isArray(variables)
    THEN Arr(SelectSeq(variables.items, LAMBDA item : item # Null /\ item # Undefined))
    ELSE variables

\* the clean-up of the payload array; a value that is not an array is passed on
cleanPayloads(variables) ==
    IF isArray(variables)
    THEN Arr(SelectSeq(variables.items,
                       LAMBDA item : /\ item # Null
                                     /\ item # Undefined
                                     /\ (~isObjectType(item) \/ keysLength(item) > 0)))
    ELSE variables

\* what createMany hands to client.mutation
createManyRequest(c) ==
    Request("mutation", SynthesizedDocument(createManyFields(c.resource)),
            Single(VarPayloads, cleanPayloads(c.variables)))

createManySettle(c, tr, onTokenExpired) ==
    IF tr.kind = "throw"
    THEN Done(Reject(catchBoundary(tr.value,
                MsgFailedCreateManyPrefix \o c.resource \o MsgRecordsSuffix)))
    ELSE IF IsSome(tr.error)
    THEN RejectClassified(tr.error, onTokenExpired)
    ELSE Done(Resolve([data |->
            Coalesce(Get(tr.data, PreUpsert \o mutationName(c.resource) \o SufList),
                     Arr(<<>>))]))

CreateManyCall ==
    /\ CanCall
    /\ \E resource \in Resources :
          Issue(Params("createMany", resource),
                createManyRequest(Params("createMany", resource)))

CreateManySettle ==
    /\ pc = "awaiting"
    /\ call.op = "createMany"
    /\ \E tr \in TransportResults(requests[1].document.fields) :
          Finish(tr, createManySettle(call, tr, hasOnTokenExpired))

(***************************************************************************)
(* update                                                                  *)
(***************************************************************************)
updateFields(resource) == <<PreUpdate \o mutationName(resource)>>

\* what update hands to client.mutation
updateRequest(c) ==
    IF c.gqlMutation
    THEN Request("mutation", CallerDocument(c.docFields), callerMutationVariables(c))
    ELSE Request("mutation", SynthesizedDocument(updateFields(c.resource)),
                 Obj(VarId :> Str(c.id)
                     @@ VarDeltaUpdate :> Or(c.deltaUpdate, Bool(FALSE))
                     @@ VarPayload :> Get(c.variables, KeyData)
                     @@ VarConnect :> Get(c.variables, VarConnect)
                     @@ VarDisconnect :> Get(c.variables, VarDisconnect)))

updateSettle(c, tr, onTokenExpired) ==
    IF tr.kind = "throw"
    THEN Done(Reject(catchBoundary(tr.value,
                MsgFailedUpdatePrefix \o c.resource \o MsgWithId \o c.id)))
    ELSE IF IsSome(tr.error)
    THEN RejectClassified(tr.error, IF c.gqlMutation THEN FALSE ELSE onTokenExpired)
    ELSE Done(Resolve([data |->
            Coalesce(Get(Get(tr.data, PreUpdate \o capitalize(c.resource)), KeyData),
                     EmptyObj)]))

UpdateCall ==
    /\ CanCall
    /\ \E resource \in Resources, variables \in CallerVariables :
          \/ \E fields \in CallerMutationDocuments(PreUpdate, resource) :
                LET c == [Params("update", resource) EXCEPT !.variables = variables,
                                                            !.gqlMutation = TRUE,
                                                            !.docFields = fields]
                IN  Issue(c, updateRequest(c))
          \/ LET c == [Params("update", resource) EXCEPT !.variables = variables]
             IN  IF Nullish(variables)
                 THEN \* (variables as Record<string, any>).data throws
                      SettleEarly(c, Reject(catchBoundary(TypeError,
                          MsgFailedUpdatePrefix \o resource \o MsgWithId \o c.id)))
                 ELSE Issue(c, updateRequest(c))

UpdateSettle ==
    /\ pc = "awaiting"
    /\ call.op = "update"
    /\ \E tr \in TransportResults(requests[1].document.fields) :
          Finish(tr, updateSettle(call, tr, hasOnTokenExpired))

(***************************************************************************)
(* deleteOne                                                               *)
(***************************************************************************)
deleteOneFields(resource) == <<PreDelete \o mutationName(resource)>>

\* what deleteOne hands to client.mutation
deleteOneRequest(c) ==
    Request("mutation", SynthesizedDocument(deleteOneFields(c.resource)),
            Single(VarIds, Arr(<<Str(c.id)>>)))

deleteOneSettle(c, tr, onTokenExpired) ==
    IF tr.kind = "throw"
    THEN Done(Reject(catchBoundary(tr.value,
                MsgFailedDeletePrefix \o c.resource \o MsgWithId \o c.id)))
    ELSE IF IsSome(tr.error)
    THEN RejectClassified(tr.error, onTokenExpired)
    ELSE IF hasDataErrors(tr.data)
    THEN Done(Reject(HttpError(dataErrorMessages(Get(tr.data, KeyErrors)), 400)))
    ELSE Done(Resolve([data |->
            Coalesce(Get(Get(tr.data, PreDelete \o capitalize(c.resource)), KeyData),
                     EmptyObj)]))

DeleteOneCall ==
    /\ CanCall
    /\ \E resource \in Resources :
          Issue(Params("deleteOne", resource),
                deleteOneRequest(Params("deleteOne", resource)))

DeleteOneSettle ==
    /\ pc = "awaiting"
    /\ call.op = "deleteOne"
    /\ \E tr \in TransportResults(requests[1].document.fields) :
          Finish(tr, deleteOneSettle(call, tr, hasOnTokenExpired))

(***************************************************************************)
(* custom                                                                  *)
(***************************************************************************)
customSettle(c, tr, onTokenExpired) ==
    IF tr.kind = "throw"
    THEN Done(Reject(catchBoundary(tr.value, MsgFailedCustom)))
    ELSE IF IsSome(tr.error)
    THEN RejectClassified(tr.error, onTokenExpired)
    ELSE IF hasDataErrors(tr.data)
    THEN Done(Reject(HttpError(dataErrorMessages(Get(tr.data, KeyErrors)), 400)))
    ELSE Done(Resolve([data |-> tr.data]))

\* the documents a caller may pass to custom, by their top-level fields
CallerCustomDocuments == {<<KeyItems>>}

\* a slip of customConfigError: a call with both documents is let through
customConfigError_BothAllowed(c) ==
    IF ~c.gqlQuery /\ ~c.gqlMutation
    THEN Some(HttpError(MsgNoneProvided, 400))
    ELSE None

\* the configuration error of a call, if it has one
customConfigError(c) ==
    IF c.gqlQuery /\ c.gqlMutation
    THEN Some(HttpError(MsgBothProvided, 400))
    ELSE IF ~c.gqlQuery /\ ~c.gqlMutation
    THEN Some(HttpError(MsgNoneProvided, 400))
    ELSE None

\* filters.reduce(...): acc[adjustedField] = { [operator || 'eq']: value }
RECURSIVE customWhere(_, _)
customWhere(acc, filters) ==
    IF Len(filters) = 0 THEN acc
    ELSE LET f == filters[1]
         IN  customWhere(
                 IF hasOperatorAndValue(f)
                 THEN setProp(acc, adjustedField(f.field[1]),
                              Single(f.operator[1], f.value))
                 ELSE acc,
                 Tail(filters))

\* { ...variables }: the own properties of an object, none of undefined
spread(v) == IF v.t = "object" THEN v ELSE EmptyObj

\* if (where) variables = { ...variables, where: where || {} }
withWhere(variables, filters) ==
    LET where == IF IsSome(filters) THEN customWhere(EmptyObj, filters[1]) ELSE Undefined
    IN  IF Truthy(where)
        THEN assign(spread(variables), Single(VarWhere, Or(where, EmptyObj)))
        ELSE variables

\* a slip of withPayloadsArray: an array of payloads is rebuilt from its values
\* in reverse
withPayloadsArray_Reversed(variables) ==
    LET payloads == Get(variables, VarPayloads)
        values == IF isArray(payloads) THEN payloads.items ELSE objectValues(payloads)
    IN  IF Truthy(payloads) /\ isObjectType(payloads)
        THEN assign(spread(variables),
                    Single(VarPayloads,
                           Arr([i \in 1..Len(values) |-> values[Len(values) + 1 - i]])))
        ELSE variables

\* payloads that is an object and not an array becomes the array of its values
withPayloadsArray(variables) ==
    LET payloads == Get(variables, VarPayloads)
    IN  IF Truthy(payloads) /\ isObjectType(payloads) /\ ~isArray(payloads)
        THEN assign(spread(variables), Single(VarPayloads, Arr(objectValues(payloads))))
        ELSE variables

\* what custom hands to client.query or client.mutation
customRequest(c) ==
    Request(IF c.gqlQuery THEN "query" ELSE "mutation",
            CallerDocument(c.docFields),
            withPayloadsArray(withWhere(c.gqlVariables, c.filters)))

\* custom up to its await, for a call c
customCall(c) ==
    IF IsSome(customConfigError(c))
    THEN SettleEarly(c, Reject(customConfigError(c)[1]))
    ELSE Issue(c, customRequest(c))

CustomCall ==
    /\ CanCall
    /\ \E gqlQuery \in BOOLEAN, gqlMutation \in BOOLEAN, fields \in CallerCustomDocuments :
          customCall([Params("custom", ResProduct) EXCEPT !.gqlQuery = gqlQuery,
                                                          !.gqlMutation = gqlMutation,
                                                          !.docFields = fields])

CustomSettle ==
    /\ pc = "awaiting"
    /\ call.op = "custom"
    /\ \E tr \in TransportResults(requests[1].document.fields) :
          Finish(tr, customSettle(call, tr, hasOnTokenExpired))

(***************************************************************************)
(* Specification                                                           *)
(***************************************************************************)
Next ==
    \/ GetListCall
    \/ GetListSettle
    \/ GetOneCall
    \/ GetOneSettle
    \/ CreateCall
    \/ CreateSettle
    \/ CreateManyCall
    \/ CreateManySettle
    \/ UpdateCall
    \/ UpdateSettle
    \/ DeleteOneCall
    \/ DeleteOneSettle
    \/ CustomCall
    \/ CustomSettle
    \/ Return

Spec == Init /\ [][Next]_vars

(***************************************************************************)
(* The handlers under varied parameters.  Spec runs few shapes of call     *)
(* against every answer of the transport; SpecRich runs getList, custom    *)
(* and createMany with varied filters, sorters, pagination and variables   *)
(* against few answers.                                                    *)
(***************************************************************************)
SeqsUpTo(S, n) == UNION { [1..k -> S] : k \in 0..n }

FilterFields ==
    {FldName, FldDataName, FieldKey, FldRelCategoryName}

\* conditions on one field: with and without an operator, with and without a value
FieldConditions ==
    { Condition(Some(f), operator, value) :
        f \in FilterFields,
        operator \in {None, Some(OpEq), Some(OpNe)},
        value \in {Undefined, Str(ValAbc)} }

\* the members of a group
SubConditionLists ==
    LET a == Condition(Some(FldName), Some(OpEq), Str(ValAbc))
        b == Condition(Some(FldPrice), Some(OpNe), Str(ValAbc))
        c == Condition(Some(FldDataName), Some(OpNe), Str(ValAbc))
        d == Condition(Some(FldName), None, Str(ValAbc))
    IN  {<<>>, <<a, b>>, <<a, c>>, <<a, d>>}

\* groups: or, and, and a field compared by eq with a list of conditions
GroupConditions ==
    { Condition(None, Some(operator), Arr(l)) :
        operator \in {OpOr, OpAnd}, l \in SubConditionLists }
    \cup { Condition(Some(FldName), Some(OpEq), Arr(l)) : l \in SubConditionLists }

FilterLists == SeqsUpTo(FieldConditions \cup GroupConditions, MaxFilters)

\* fields reached through relations: two under category, one under brand
FldRelCategorySlug ==
    <<"r", "e", "l", "a", "t", "i", "o", "n", ".", "c", "a", "t", "e", "g", "o", "r", "y", ".", "s", "l", "u", "g">>
FldRelBrandName ==
    <<"r", "e", "l", "a", "t", "i", "o", "n", ".", "b", "r", "a", "n", "d", ".", "n", "a", "m", "e">>

\* conditions on fields reached through relations
RelationConditions ==
    {Condition(Some(FldRelCategoryName), Some(OpEq), Str(ValAbc)),
     Condition(Some(FldRelCategorySlug), Some(OpNe), Str(ValAbc)),
     Condition(Some(FldRelBrandName), Some(OpEq), Str(ValAbc))}

RelationFilterLists == SeqsUpTo(RelationConditions, MaxFilters)

Sorters == [field : {None, Some(FldPrice), Some(FldName)},
            order : {None, Some(OrdAsc), Some(OrdDesc)}]

SorterLists == SeqsUpTo(Sorters, MaxSorters)

Paginations ==
    [current : {Undefined, Num(0), Num(2)}, page : {Undefined, Num(0), Num(3)},
     pageSize : {Undefined, Num(0), Num(20)}, size : {Undefined, Num(0), Num(50)}]

\* the calls of getList that synthesize the document
SynthesizedListCalls ==
    { [Params("getList", ResProduct) EXCEPT !.filters = filters] :
        filters \in {None} \cup {Some(l) : l \in FilterLists \cup RelationFilterLists} }
    \cup { [Params("getList", ResProduct) EXCEPT !.sorters = sorters] :
        sorters \in {None} \cup {Some(l) : l \in SorterLists} }
    \cup { [Params("getList", ResProduct) EXCEPT !.pagination = pagination] :
        pagination \in {None} \cup {Some(p) : p \in Paginations} }

\* the calls of getList that pass their own document
CallerListCalls ==
    { [Params("getList", ResProduct) EXCEPT
          !.gqlQuery = TRUE, !.docFields = docFields, !.queryKey = queryKey,
          !.metaVariables = metaVariables, !.filters = filters, !.sorters = sorters,
          !.pagination = pagination, !.fields = fields,
          !.connectionFields = connectionFields, !.reverseLookup = reverseLookup] :
        docFields \in {<<ResProduct, KeyItems>>, <<KeyItems>>},
        queryKey \in {None, Some(KeyItems)},
        metaVariables \in {Undefined, Single(KeyLocale, Str(ValAbc))},
        filters \in {None,
                     Some(<<Condition(Some(FldName), Some(OpEq), Str(ValAbc))>>),
                     Some(<<Condition(Some(FieldKey), Some(OpEq), Str(ValAbc))>>)},
        sorters \in {None, Some(<<[field |-> Some(FldPrice), order |-> Some(OrdAsc)]>>)},
        pagination \in {None, Some([current |-> Num(2), page |-> Undefined,
                                    pageSize |-> Num(20), size |-> Undefined])},
        fields \in {None, Some(<<FldName>>)},
        connectionFields \in {<<>>, <<[key |-> FldPrice, fields |-> FldName]>>},
        reverseLookup \in {Undefined, Single(FldPrice, Str(ValAbc))} }

\* the entries of the array a caller passes to createMany
PayloadEntries == {Null, Undefined, EmptyObj, RecordAt(1), RecordAt(2), Num(0)}

CreateManyCalls ==
    { [Params("createMany", ResProduct) EXCEPT !.variables = variables] :
        variables \in {Undefined} \cup {Arr(l) : l \in SeqsUpTo(PayloadEntries, MaxPayloads)} }

\* payloads given as an object keyed by indices
IndexKeys == {KeyIndex0, KeyIndex2, KeyIndex10}

IndexedPayloads ==
    { Obj(f) : f \in UNION { [S -> {RecordAt(1), RecordAt(2)}] : S \in SUBSET IndexKeys } }

CustomVariables ==
    {Undefined, Single(KeyLocale, Str(ValAbc)),
     Single(VarWhere, Single(FldPrice, Single(OpNe, Str(ValAbc)))),
     Obj(VarWhere :> Single(FldPrice, Single(OpNe, Str(ValAbc))) @@ KeyLocale :> Str(ValAbc))}
    \cup { Obj(VarPayloads :> p @@ rest.props) :
             p \in IndexedPayloads \cup {Null, Arr(<<>>), Arr(<<RecordAt(2), RecordAt(1)>>)},
             rest \in {EmptyObj, Single(KeyLocale, Str(ValAbc))} }

CustomFilters ==
    {None, Some(<<>>),
     Some(<<Condition(Some(FldName), Some(OpEq), Str(ValAbc))>>),
     Some(<<Condition(Some(FldDataName), Some(OpNe), Str(ValAbc))>>),
     Some(<<Condition(Some(FldName), None, Str(ValAbc))>>)}

CustomCalls ==
    { [Params("custom", ResProduct) EXCEPT
          !.gqlQuery = gqlQuery, !.gqlMutation = gqlMutation, !.docFields = <<KeyItems>>,
          !.gqlVariables = gqlVariables, !.filters = filters] :
        gqlQuery \in BOOLEAN, gqlMutation \in BOOLEAN,
        gqlVariables \in CustomVariables, filters \in CustomFilters }

\* the connections callers ask for and the actual fields they declare
ConnCategory ==
    <<"c", "a", "t", "e", "g", "o", "r", "y">>
ConnBrand ==
    <<"b", "r", "a", "n", "d">>
ConnOwner ==
    <<"o", "w", "n", "e", "r">>
AliasCategory ==
    <<"c", "a", "t", "e", "g", "o", "r", "y", "_", "r", "e", "f">>
AliasBrand ==
    <<"b", "r", "a", "n", "d", "_", "r", "e", "f">>
AliasOwner ==
    <<"o", "w", "n", "e", "r", "_", "r", "e", "f">>

\* meta.connectionFields: its properties in the order of Object.keys
ConnectionFieldLists ==
    LET category == [key |-> ConnCategory, fields |-> FldName]
        brand == [key |-> ConnBrand, fields |-> FieldId]
    IN  {<<>>, <<category>>, <<brand>>, <<category, brand>>, <<brand, category>>}

\* the actual field declared for a key
AliasOf(key) ==
    CASE key = ConnCategory -> AliasCategory
      [] key = ConnBrand -> AliasBrand
      [] key = ConnOwner -> AliasOwner

\* the aliasFields of a choice: for each of its keys the actual field or ''
AliasFields(choice) ==
    Obj([k \in DOMAIN choice |-> IF choice[k] = "actual" THEN Str(AliasOf(k)) ELSE Str(<<>>)])

\* meta.aliasFields: an actual field or an empty text for some of the keys
AliasFieldMaps ==
    UNION { { AliasFields(choice) : choice \in [S -> {"actual", "empty"}] }
            : S \in SUBSET {ConnCategory, ConnBrand, ConnOwner} }

\* the calls of getList and getOne that ask for connections
ConnectionCalls(op) ==
    { [Params(op, ResProduct) EXCEPT !.connectionFields = connectionFields,
                                     !.aliasFields = aliasFields] :
        connectionFields \in ConnectionFieldLists, aliasFields \in AliasFieldMaps }

\* few answers of the transport: a payload with a list of i records under
\* the i-th field, a failed request, a thrown value
FewTransportResults(fields) ==
    {[kind |-> "response", error |-> None,
      data |-> Obj([k \in Range(fields) |->
                      Arr(Records(CHOOSE i \in 1..Len(fields) : fields[i] = k))])]}
    \cup {[kind |-> "response",
           error |-> Some([networkError |-> Some([statusCode |-> Some(500), status |-> None,
                                                  message |-> NetMsgFailedToFetch]),
                           graphQLErrors |-> <<>>, message |-> <<>>]),
           data |-> Undefined]}
    \cup {[kind |-> "throw", value |-> [message |-> ThrownMsgBoom, statusCode |-> None]]}

RichGetListCall ==
    /\ CanCall
    /\ \E c \in SynthesizedListCalls \cup CallerListCalls \cup ConnectionCalls("getList") :
          Issue(c, getListRequest(c))

RichGetListSettle ==
    /\ pc = "awaiting"
    /\ call.op = "getList"
    /\ \E tr \in FewTransportResults(requests[1].document.fields) :
          Finish(tr, getListSettle(call, tr, hasOnTokenExpired))

RichGetOneCall ==
    /\ CanCall
    /\ \E c \in ConnectionCalls("getOne") : Issue(c, getOneRequest(c))

RichGetOneSettle ==
    /\ pc = "awaiting"
    /\ call.op = "getOne"
    /\ \E tr \in FewTransportResults(requests[1].document.fields) :
          Finish(tr, getOneSettle(call, tr, hasOnTokenExpired))

RichCreateManyCall ==
    /\ CanCall
    /\ \E c \in CreateManyCalls : Issue(c, createManyRequest(c))

RichCreateManySettle ==
    /\ pc = "awaiting"
    /\ call.op = "createMany"
    /\ \E tr \in FewTransportResults(requests[1].document.fields) :
          Finish(tr, createManySettle(call, tr, hasOnTokenExpired))

RichCustomCall ==
    /\ CanCall
    /\ \E c \in CustomCalls : customCall(c)

RichCustomSettle ==
    /\ pc = "awaiting"
    /\ call.op = "custom"
    /\ \E tr \in FewTransportResults(requests[1].document.fields) :
          Finish(tr, customSettle(call, tr, hasOnTokenExpired))

NextRich ==
    \/ RichGetListCall
    \/ RichGetListSettle
    \/ RichGetOneCall
    \/ RichGetOneSettle
    \/ RichCreateManyCall
    \/ RichCreateManySettle
    \/ RichCustomCall
    \/ RichCustomSettle
    \/ Return

\* the provider is built with a session-expiry callback
InitRich == Init /\ hasOnTokenExpired

SpecRich == InitRich /\ [][NextRich]_vars



(***************************************************************************)
(* Properties.  The definitions below state the claims in their own terms: *)
(* they read the recorded inputs and results and do not call the handlers. *)
(***************************************************************************)
\* the status a network failure carries, as the claims read it: statusCode
\* when the failure has one, else status
CarriedStatus(networkError) ==
    IF IsSome(networkError.statusCode) THEN networkError.statusCode
    ELSE networkError.status

\* the same, a status of 0 counting as no status
CarriedNonZeroStatus(networkError) ==
    IF IsSome(networkError.statusCode) /\ networkError.statusCode[1] # 0
    THEN networkError.statusCode
    ELSE IF IsSome(networkError.status) /\ networkError.status[1] # 0
    THEN networkError.status
    ELSE None

\* two characters that are equal up to the case of a letter
SameLetter(a, b) ==
    \/ a = b
    \/ \E n \in 1..Len(UpperLetters) : {a, b} = {UpperLetters[n], LowerLetters[n]}

\* text contains keyword, case-insensitively
ContainsIgnoringCase(text, keyword) ==
    \E i \in 1..(Len(text) - Len(keyword) + 1) :
        \A j \in 1..Len(keyword) : SameLetter(text[i + j - 1], keyword[j])

AuthKeywords == {KwUnauthorized, KwForbidden, KwToken, KwAuthentication, KwAuthorization}

MentionsAuth(graphQLErrors) ==
    \E i \in 1..Len(graphQLErrors), keyword \in AuthKeywords :
        ContainsIgnoringCase(graphQLErrors[i].message, keyword)

\* the messages of the errors in their order, separated by ', '
RECURSIVE MessagesInOrder(_)
MessagesInOrder(errors) ==
    IF Len(errors) = 0 THEN <<>>
    ELSE IF Len(errors) = 1 THEN errors[1].message
    ELSE MessagesInOrder(SubSeq(errors, 1, Len(errors) - 1))
            \o <<",", " ">> \o errors[Len(errors)].message

\* the transport answered with a response that reports no error
AnsweredWithoutError ==
    pc = "settled" /\ response.kind = "response" /\ ~IsSome(response.error)

\* the transport answered with a response that reports the error
AnsweredWithError ==
    pc = "settled" /\ response.kind = "response" /\ IsSome(response.error)

\* C1: whenever the classifier is given an error whose network failure carries
\* status 401 or 403, it returns {message: 'Token expired. Please login
\* again.', statusCode: 403} and invokes the callback it was given exactly
\* once, whatever GraphQL errors the same error carries.
C1_NetworkAuthPrecedence ==
    \A i \in 1..Len(classified) :
        LET k == classified[i]
            e == k.error[1]
        IN  (IsSome(e.networkError)
             /\ CarriedStatus(e.networkError[1]) \in {Some(401), Some(403)})
            => /\ k.result = [message |-> MsgTokenExpired, statusCode |-> Some(403)]
               /\ k.onTokenExpired => (k.expired = 1 /\ expired = 1)

\* C1 happens: a 403 network failure that also carries a GraphQL error with an
\* authentication keyword was classified with the callback supplied
C1_Witness ==
    /\ Len(classified) = 1
    /\ classified[1].onTokenExpired
    /\ IsSome(classified[1].error[1].networkError)
    /\ classified[1].error[1].networkError[1].status = Some(403)
    /\ classified[1].error[1].networkError[1].statusCode = None
    /\ Len(classified[1].error[1].graphQLErrors) > 0
    /\ MentionsAuth(classified[1].error[1].graphQLErrors)
    /\ classified[1].result.statusCode = Some(403)
    /\ expired = 1

\* C2: whenever the classifier is given an error with no network failure and
\* at least one GraphQL error, it returns {message: 'Authentication failed.
\* Please login again.', statusCode: 403} and invokes the callback when some
\* message contains an authentication keyword (case-insensitively), and
\* otherwise returns statusCode 400 with the messages joined by ', ' in order
\* and does not invoke the callback; getList rejects with {message: 'GraphQL
\* Error', statusCode: 400} on the single GraphQL error 'GraphQL Error'.
C2_ProtocolBranch ==
    /\ \A i \in 1..Len(classified) :
          LET k == classified[i]
              e == k.error[1]
          IN  (~IsSome(e.networkError) /\ Len(e.graphQLErrors) >= 1)
              => IF MentionsAuth(e.graphQLErrors)
                 THEN /\ k.result = [message |-> MsgAuthFailed, statusCode |-> Some(403)]
                      /\ k.expired = (IF k.onTokenExpired THEN 1 ELSE 0)
                 ELSE /\ k.result = [message |-> MessagesInOrder(e.graphQLErrors),
                                     statusCode |-> Some(400)]
                      /\ k.expired = 0
    /\ (AnsweredWithError /\ call.op = "getList"
        /\ ~IsSome(response.error[1].networkError)
        /\ response.error[1].graphQLErrors = <<[message |-> GqlMsgPlain]>>)
       => outcome = Reject([message |-> GqlMsgPlain, statusCode |-> Some(400)])

\* C2 happens: two GraphQL errors, the second with the keyword in upper case,
\* were classified as an authentication failure with the callback supplied
C2_Witness ==
    /\ Len(classified) = 1
    /\ classified[1].onTokenExpired
    /\ ~IsSome(classified[1].error[1].networkError)
    /\ classified[1].error[1].graphQLErrors
          = <<[message |-> GqlMsgNotAuthorized], [message |-> GqlMsgInvalidToken]>>
    /\ classified[1].result.message = MsgAuthFailed
    /\ expired = 1

\* C3 as stated: whenever the classifier is given an error whose network
\* failure carries a status that is neither 401 nor 403, it returns 'Network
\* error: <message>' with the carried status when one is present and 503 when
\* none is, and does not invoke the callback.
C3_NetworkBranch_AsStated ==
    \A i \in 1..Len(classified) :
        LET k == classified[i]
            e == k.error[1]
        IN  (IsSome(e.networkError)
             /\ CarriedStatus(e.networkError[1]) \notin {Some(401), Some(403)})
            => /\ k.result.message = MsgNetworkPrefix \o e.networkError[1].message
               /\ k.result.statusCode =
                     (IF IsSome(CarriedStatus(e.networkError[1]))
                      THEN CarriedStatus(e.networkError[1]) ELSE Some(503))
               /\ k.expired = 0

\* C3 amended: a status of 0 counts as absent (statusCode 0 gives way to
\* status, and a carried status of 0 to 503); with the carried non-zero status
\* neither 401 nor 403, the classifier returns 'Network error: <message>' with
\* that status, or 503 when there is none, and does not invoke the callback.
C3_NetworkBranch ==
    \A i \in 1..Len(classified) :
        LET k == classified[i]
            e == k.error[1]
        IN  (IsSome(e.networkError)
             /\ CarriedNonZeroStatus(e.networkError[1]) \notin {Some(401), Some(403)})
            => /\ k.result.message = MsgNetworkPrefix \o e.networkError[1].message
               /\ k.result.statusCode =
                     (IF IsSome(CarriedNonZeroStatus(e.networkError[1]))
                      THEN CarriedNonZeroStatus(e.networkError[1]) ELSE Some(503))
               /\ k.expired = 0
               /\ expired = 0

\* C3 happens: a network failure whose statusCode is 0 and that has no status
\* was classified, with the callback supplied, as 'Network error: Failed to
\* fetch' with statusCode 503
C3_Witness ==
    /\ Len(classified) = 1
    /\ classified[1].onTokenExpired
    /\ IsSome(classified[1].error[1].networkError)
    /\ classified[1].error[1].networkError[1].statusCode = Some(0)
    /\ classified[1].error[1].networkError[1].status = None
    /\ classified[1].result = [message |-> MsgNetworkPrefix \o NetMsgFailedToFetch,
                               statusCode |-> Some(503)]
    /\ expired = 0

\* the error of a response is an authentication failure: its network failure
\* carries 401 or 403, or it has no network failure and a GraphQL error
\* message with an authentication keyword
IsAuthFailure(error) ==
    IF IsSome(error.networkError)
    THEN CarriedNonZeroStatus(error.networkError[1]) \in {Some(401), Some(403)}
    ELSE MentionsAuth(error.graphQLErrors)

\* C4: in every operation and on every path, when onTokenExpired was supplied
\* at construction and the response carries an authentication failure, the
\* callback has been invoked exactly once when the call rejects, and the
\* classifier at most once.
C4_CallbackOncePerAuthFailure ==
    (AnsweredWithError /\ hasOnTokenExpired /\ IsAuthFailure(response.error[1]))
    => /\ outcome.status = "rejected"
       /\ expired = 1
       /\ Len(classified) <= 1

\* C5: when an internal step throws an object that carries a numeric
\* statusCode, the operation rejects with that very object.
C5_PreClassifiedPassThrough ==
    (pc = "settled" /\ response.kind = "throw" /\ IsSome(response.value.statusCode))
    => outcome = Reject(response.value)

\* C5 happens: the transport threw {message: 'Boom', statusCode: 404} and the
\* call settled
C5_Witness ==
    /\ pc = "settled"
    /\ response.kind = "throw"
    /\ response.value = [message |-> ThrownMsgBoom, statusCode |-> Some(404)]
    /\ outcome.status = "rejected"
    /\ outcome.error.statusCode = Some(404)

\* the call is a create or an update that synthesizes its document and was
\* given no variables
WithoutVariables ==
    pc = "settled" /\ call.op \in {"create", "update"} /\ ~call.gqlMutation
    /\ Nullish(call.variables)

\* C6: an exception without statusCode raised in an operation (by the
\* transport, or by update or create reading the missing variables) makes the
\* call reject with {message, statusCode: 500}, the message being the
\* exception's or, when that is empty, the operation's default; and every
\* rejection of every operation carries a message and a numeric statusCode.
C6_UnexpectedExceptionsWrapped ==
    /\ (pc = "settled" /\ response.kind = "throw"
        /\ ~IsSome(response.value.statusCode))
       => /\ outcome.status = "rejected"
          /\ outcome.error.statusCode = Some(500)
          /\ Len(outcome.error.message) > 0
          /\ Len(response.value.message) > 0
                => outcome.error.message = response.value.message
    /\ WithoutVariables
       => /\ outcome = Reject([message |-> MsgTypeError, statusCode |-> Some(500)])
          /\ requests = <<>>
    /\ outcome.status = "rejected"
       => /\ DOMAIN outcome.error = {"message", "statusCode"}
          /\ IsSome(outcome.error.statusCode)
          /\ outcome.error.statusCode[1] \in Nat

\* C6 happens: the transport threw an error with an empty message and no
\* statusCode, and the call rejected with the default message of getOne
C6_Witness ==
    /\ pc = "settled"
    /\ call.op = "getOne"
    /\ response.kind = "throw"
    /\ response.value = [message |-> <<>>, statusCode |-> None]
    /\ outcome = Reject([message |-> MsgFailedFetchPrefix \o call.resource
                                        \o MsgWithId \o call.id,
                         statusCode |-> Some(500)])

\* the payload of the response (undefined when the response has none)
Payload == response.data

\* the value of the payload under resource + suffix
UnderKey(suffix) ==
    IF Payload.t = "object" /\ (call.resource \o suffix) \in DOMAIN Payload.props
    THEN Payload.props[call.resource \o suffix]
    ELSE Undefined

\* the count the backend reports for the list, if any
ReportedCount ==
    LET count == UnderKey(SufListCount)
    IN  IF count.t = "object" /\ KeyTotal \in DOMAIN count.props
        THEN Some(count.props[KeyTotal])
        ELSE None

\* C7: getList with a synthesized document resolves, for every response
\* without error, with data = response.data[resource + 'List'] (an empty array
\* when absent) and total = response.data[resource + 'ListCount'].total (0
\* when the count object or its total is absent).
C7_ListTotalFromCountKey ==
    (AnsweredWithoutError /\ call.op = "getList" /\ ~call.gqlQuery)
    => /\ outcome.status = "resolved"
       /\ outcome.value.data = (IF UnderKey(SufList).t \in {"undefined", "null"}
                                THEN Arr(<<>>) ELSE UnderKey(SufList))
       /\ outcome.value.total = (IF IsSome(ReportedCount) THEN ReportedCount[1]
                                                          ELSE Num(0))

\* C7 happens: a page of 1 record with a reported count of 57 gave total 57
C7_Witness ==
    /\ AnsweredWithoutError /\ call.op = "getList" /\ ~call.gqlQuery
    /\ UnderKey(SufList) = Arr(Records(1))
    /\ ReportedCount = Some(Num(57))
    /\ outcome.status = "resolved"
    /\ outcome.value.total = Num(57)

\* C8: every successful getList, also one made with a caller-supplied
\* gqlQuery document, returns as total the count the backend reported.
C8_TotalIsReportedCount ==
    (AnsweredWithoutError /\ call.op = "getList" /\ outcome.status = "resolved"
     /\ IsSome(ReportedCount))
    => outcome.value.total = ReportedCount[1]

\* the payload carries an errors array that is present and non-empty
HasEmbeddedErrors ==
    /\ Payload.t = "object"
    /\ KeyErrors \in DOMAIN Payload.props
    /\ Payload.props[KeyErrors].t = "array"
    /\ Len(Payload.props[KeyErrors].items) > 0

\* the messages of the embedded errors in their order, separated by ', '
RECURSIVE EmbeddedMessages(_)
EmbeddedMessages(items) ==
    IF Len(items) = 0 THEN <<>>
    ELSE IF Len(items) = 1 THEN items[1].props[KeyMessage].s
    ELSE EmbeddedMessages(SubSeq(items, 1, Len(items) - 1))
            \o <<",", " ">> \o items[Len(items)].props[KeyMessage].s

\* C9: deleteOne and custom, on a response without transport error, reject
\* with {message: the embedded messages joined by ', ', statusCode: 400} if
\* and only if the payload's errors array is present and non-empty, and
\* resolve otherwise.
C9_EmbeddedErrorsIffNonEmpty ==
    (AnsweredWithoutError /\ call.op \in {"deleteOne", "custom"})
    => IF HasEmbeddedErrors
       THEN outcome = Reject([message |-> EmbeddedMessages(Payload.props[KeyErrors].items),
                              statusCode |-> Some(400)])
       ELSE outcome.status = "resolved"

\* C10: in every operation a response without transport error whose payload
\* carries a non-empty errors array makes the call reject.
C10_EmbeddedErrorsAlwaysReject ==
    (AnsweredWithoutError /\ HasEmbeddedErrors) => outcome.status = "rejected"

(***************************************************************************)
(* Properties of the requests getList, custom and createMany submit        *)
(***************************************************************************)
\* a call of getList that synthesizes its document has issued its request
SynthesizedList ==
    pc # "idle" /\ call.op = "getList" /\ ~call.gqlQuery /\ Len(requests) = 1

\* the filters of the current call, none counting as the empty list
TopLevelFilters == IF IsSome(call.filters) THEN call.filters[1] ELSE <<>>

\* the value the request submits for a variable (undefined when it submits none)
Submitted(variable) == Get(requests[1].variables, variable)

\* the variables the list document declares
DeclaredVariables == {d.variable : d \in Range(requests[1].document.declarations)}

\* a condition that compares a field with a list of conditions, or groups
\* conditions under or / and
IsGroup(condition) == condition.value.t = "array"

\* the places of the top-level conditions on the reserved field '_key'
KeyPlaces ==
    {i \in DOMAIN TopLevelFilters :
        ~IsGroup(TopLevelFilters[i]) /\ TopLevelFilters[i].field = Some(FieldKey)}

Last(places) == CHOOSE i \in places : \A j \in places : j <= i

\* { operator: value }, a missing operator read as 'eq'
KeyConditionOf(condition) ==
    Obj((IF IsSome(condition.operator) THEN condition.operator[1] ELSE OpEq)
            :> condition.value)

\* C11: a top-level condition on '_key' never produces an entry in where or
\* whereCount; it is submitted only as _key and _keyCount, as
\* { operator: value } with a missing operator read as 'eq', and of several
\* '_key' conditions the last one is the key condition
C11_ReservedKeyExtraction ==
    SynthesizedList =>
        /\ ~HasProp(Submitted(VarWhere), FieldKey)
        /\ ~HasProp(Submitted(VarWhereCount), FieldKey)
        /\ IF KeyPlaces = {}
           THEN /\ ~HasProp(requests[1].variables, VarKey)
                /\ ~HasProp(requests[1].variables, VarKeyCount)
           ELSE /\ Submitted(VarKey) = KeyConditionOf(TopLevelFilters[Last(KeyPlaces)])
                /\ Submitted(VarKeyCount) = KeyConditionOf(TopLevelFilters[Last(KeyPlaces)])

\* two '_key' conditions, the last without an operator: the key condition is
\* { eq: value } and where stays empty
C11_Witness ==
    /\ SynthesizedList
    /\ TopLevelFilters = <<Condition(Some(FieldKey), Some(OpNe), Str(ValAbc)),
                           Condition(Some(FieldKey), None, Str(ValAbc))>>
    /\ Submitted(VarKey) = Single(OpEq, Str(ValAbc))
    /\ Submitted(VarKeyCount) = Single(OpEq, Str(ValAbc))
    /\ Submitted(VarWhere) = EmptyObj

\* a condition on a field that lacks an operator or whose value is undefined
IsIncomplete(condition) ==
    ~IsGroup(condition) /\ (condition.operator = None \/ condition.value = Undefined)

\* the list without its i-th entry
Without(list, i) == SubSeq(list, 1, i - 1) \o SubSeq(list, i + 1, Len(list))

\* C12: a condition that lacks an operator or whose value is undefined is
\* skipped, whatever its field: the request (where, key condition, relation
\* condition, declared variables) is the one of the same list with that
\* condition removed
C12_IncompleteConditionsSkipped ==
    SynthesizedList =>
        \A i \in DOMAIN TopLevelFilters :
            IsIncomplete(TopLevelFilters[i]) =>
                requests[1] = getListRequest([call EXCEPT !.filters =
                                                 Some(Without(TopLevelFilters, i))])

\* the name a plain condition is compiled under: the field without a leading 'data.'
Stripped(field) ==
    IF Len(field) >= 5 /\ SubSeq(field, 1, 5) = <<"d", "a", "t", "a", ".">>
    THEN SubSeq(field, 6, Len(field))
    ELSE field

\* the places of the plain conditions that have an operator and a defined value
PlainPlaces ==
    {i \in DOMAIN TopLevelFilters :
        LET c == TopLevelFilters[i]
        IN  /\ ~IsGroup(c) /\ ~IsIncomplete(c)
            /\ c.field # Some(FieldKey)
            /\ ~includes(c.field[1], MarkRelation)}

\* the places of the conditions that compare a field with a list of conditions
NestedPlaces ==
    {i \in DOMAIN TopLevelFilters :
        IsGroup(TopLevelFilters[i]) /\ IsSome(TopLevelFilters[i].field)}

\* the places of the conditions compiled under the name f
PlacesFor(f) ==
    {i \in PlainPlaces : Stripped(TopLevelFilters[i].field[1]) = f}
    \cup {i \in NestedPlaces : TopLevelFilters[i].field[1] = f}

RelationPlaces ==
    {i \in DOMAIN TopLevelFilters :
        LET c == TopLevelFilters[i]
        IN  ~IsGroup(c) /\ c.field # Some(FieldKey) /\ includes(c.field[1], MarkRelation)}

\* the variables the List field and the ListCount field take as arguments
ListArguments == Range(requests[1].document.arguments[1])
CountArguments == Range(requests[1].document.arguments[2])

\* the request declares the variable, passes it as this argument of the
\* field and supplies a value for it
Wired(variable, argument, arguments) ==
    /\ variable \in DeclaredVariables
    /\ [argument |-> argument, variable |-> variable] \in arguments
    /\ HasProp(requests[1].variables, variable)

\* the request neither declares the variable, nor passes it, nor supplies it
Unwired(variable) ==
    /\ variable \notin DeclaredVariables
    /\ \A a \in ListArguments \cup CountArguments : a.variable # variable
    /\ ~HasProp(requests[1].variables, variable)

\* C14: $_key and $_keyCount are declared, passed and supplied exactly when
\* a key condition was compiled, $relationWhere and $relationWhereCount
\* exactly when a relation condition was compiled; every variable passed as
\* an argument is declared; each count counterpart carries the value of its
\* list variable; without filters where is {} and neither pair appears
C14_VariablesMatchDocument ==
    SynthesizedList =>
        /\ IF KeyPlaces # {}
           THEN Wired(VarKey, VarKey, ListArguments)
                /\ Wired(VarKeyCount, VarKey, CountArguments)
           ELSE Unwired(VarKey) /\ Unwired(VarKeyCount)
        /\ IF RelationPlaces # {}
           THEN Wired(VarRelationWhere, KeyRelation, ListArguments)
                /\ Wired(VarRelationWhereCount, KeyRelation, CountArguments)
           ELSE Unwired(VarRelationWhere) /\ Unwired(VarRelationWhereCount)
        /\ \A a \in ListArguments \cup CountArguments : a.variable \in DeclaredVariables
        /\ Submitted(VarWhereCount) = Submitted(VarWhere)
        /\ Submitted(VarKeyCount) = Submitted(VarKey)
        /\ Submitted(VarRelationWhereCount) = Submitted(VarRelationWhere)
        /\ Len(TopLevelFilters) = 0 =>
              /\ Submitted(VarWhere) = EmptyObj
              /\ Unwired(VarKey) /\ Unwired(VarKeyCount)
              /\ Unwired(VarRelationWhere) /\ Unwired(VarRelationWhereCount)

\* a key condition and a relation condition: both pairs are declared and supplied
C14_Witness ==
    /\ SynthesizedList
    /\ TopLevelFilters = <<Condition(Some(FieldKey), Some(OpEq), Str(ValAbc)),
                           Condition(Some(FldRelCategoryName), Some(OpEq), Str(ValAbc))>>
    /\ {VarKey, VarKeyCount, VarRelationWhere, VarRelationWhereCount} \subseteq DeclaredVariables
    /\ Submitted(VarKeyCount) = Single(OpEq, Str(ValAbc))
    /\ Submitted(VarRelationWhereCount)
           = Single(<<"c", "a", "t", "e", "g", "o", "r", "y">>,
                    Single(FldName, Single(OpEq, Str(ValAbc))))

\* the sorters of the current call, none counting as the empty list
CallSorters == IF IsSome(call.sorters) THEN call.sorters[1] ELSE <<>>

\* the places of the sorters of a field that have an order
SorterPlaces(field) ==
    {i \in DOMAIN CallSorters :
        CallSorters[i].field = Some(field) /\ IsSome(CallSorters[i].order)}

\* the upper-case spelling of an order
UpperCased(order) ==
    IF order = OrdAsc THEN <<"A", "S", "C">> ELSE <<"D", "E", "S", "C">>

\* C15: the sort variable maps the field of each sorter to its order in upper
\* case; sorters lacking a field or an order are skipped; of several sorters
\* of one field the last one wins
C15_SortLastWins ==
    (SynthesizedList /\ IsSome(call.sorters)) =>
        /\ Submitted(VarSort).t = "object"
        /\ \A field \in {FldPrice, FldName} :
              IF SorterPlaces(field) = {}
              THEN ~HasProp(Submitted(VarSort), field)
              ELSE Get(Submitted(VarSort), field)
                      = Str(UpperCased(CallSorters[Last(SorterPlaces(field))].order[1]))
        /\ DOMAIN Submitted(VarSort).props \subseteq {FldPrice, FldName}

\* price asc, then price desc: sort is { price: 'DESC' }
C15_Witness ==
    /\ SynthesizedList
    /\ CallSorters = <<[field |-> Some(FldPrice), order |-> Some(OrdAsc)],
                       [field |-> Some(FldPrice), order |-> Some(OrdDesc)]>>
    /\ Submitted(VarSort) = Obj(FldPrice :> Str(<<"D", "E", "S", "C">>))

\* what the caller supplied under a key of pagination (undefined when nothing)
SuppliedPage(k) == IF IsSome(call.pagination) THEN call.pagination[1][k] ELSE Undefined

\* the first of two values that is present, else the default
FirstPresent(a, b, default) ==
    IF a # Undefined THEN a ELSE IF b # Undefined THEN b ELSE default

\* the same, a value of 0 counting as absent
FirstNonZero(a, b, default) ==
    IF a \notin {Undefined, Num(0)} THEN a
    ELSE IF b \notin {Undefined, Num(0)} THEN b
    ELSE default

\* C16 as stated: page is pagination.current, else pagination.page, else 1;
\* limit is pagination.pageSize, else pagination.size, else 10; a default is
\* used exactly when the value is absent
C16_PaginationDefaults_AsStated ==
    SynthesizedList =>
        /\ Submitted(VarPage)
              = FirstPresent(SuppliedPage("current"), SuppliedPage("page"), Num(1))
        /\ Submitted(VarLimit)
              = FirstPresent(SuppliedPage("pageSize"), SuppliedPage("size"), Num(10))

\* C16, amended: the same with a supplied 0 counting as absent
C16_PaginationDefaults ==
    SynthesizedList =>
        /\ Submitted(VarPage)
              = FirstNonZero(SuppliedPage("current"), SuppliedPage("page"), Num(1))
        /\ Submitted(VarLimit)
              = FirstNonZero(SuppliedPage("pageSize"), SuppliedPage("size"), Num(10))

\* current is 0 and page is 3, pageSize is 0 and size is absent: page 3, limit 10
C16_Witness ==
    /\ SynthesizedList
    /\ call.pagination = Some([current |-> Num(0), page |-> Num(3),
                               pageSize |-> Num(0), size |-> Undefined])
    /\ Submitted(VarPage) = Num(3)
    /\ Submitted(VarLimit) = Num(10)

\* a call of custom is under way or has settled
CustomCalled == pc # "idle" /\ call.op = "custom"

CustomIssued == CustomCalled /\ Len(requests) = 1

\* the payloads the caller passed (undefined when none)
CallerPayloads == Get(call.gqlVariables, VarPayloads)

\* the index keys in ascending order
IndexKeysAscending == <<KeyIndex0, KeyIndex2, KeyIndex10>>

\* the values of an indexed object in ascending order of their indices
RECURSIVE InIndexOrder(_, _)
InIndexOrder(payloads, keys) ==
    IF Len(keys) = 0 THEN <<>>
    ELSE (IF HasProp(payloads, keys[1]) THEN <<payloads.props[keys[1]]>> ELSE <<>>)
             \o InIndexOrder(payloads, Tail(keys))

\* C18: payloads given as an object keyed by indices are submitted as the
\* array of its values in ascending index order; payloads given as an array
\* are submitted unchanged; the other entries of the variables are unchanged
C18_PayloadsNormalized ==
    CustomIssued =>
        /\ CallerPayloads.t = "object" =>
              Submitted(VarPayloads) = Arr(InIndexOrder(CallerPayloads, IndexKeysAscending))
        /\ CallerPayloads.t = "array" => Submitted(VarPayloads) = CallerPayloads
        /\ call.gqlVariables.t = "object" =>
              \A k \in DOMAIN call.gqlVariables.props \ {VarPayloads, VarWhere} :
                  Submitted(k) = call.gqlVariables.props[k]

\* payloads { 0: a, 2: b, 10: a } are submitted as [a, b, a]
C18_Witness ==
    /\ CustomIssued
    /\ CallerPayloads = Obj(KeyIndex0 :> RecordAt(1) @@ KeyIndex2 :> RecordAt(2)
                            @@ KeyIndex10 :> RecordAt(1))
    /\ Submitted(VarPayloads) = Arr(<<RecordAt(1), RecordAt(2), RecordAt(1)>>)
    /\ Submitted(KeyLocale) = Str(ValAbc)

\* createMany was called with an array and has issued its request
CreateManyIssued ==
    pc # "idle" /\ call.op = "createMany" /\ Len(requests) = 1 /\ call.variables.t = "array"

\* an entry the clean-up drops: null, undefined or an object without properties
IsBlank(entry) == entry \in {Null, Undefined, EmptyObj}

\* the entries that are not blank, in their order
RECURSIVE NonBlank(_)
NonBlank(entries) ==
    IF Len(entries) = 0 THEN <<>>
    ELSE (IF IsBlank(entries[1]) THEN <<>> ELSE <<entries[1]>>) \o NonBlank(Tail(entries))

\* C19: the payloads createMany submits are exactly the entries of the input
\* array that are neither null, undefined nor an empty object, in their
\* order; an array without such entries is submitted as it is, and cleaning
\* the submitted array again changes nothing
C19_CreateManyCleaning ==
    CreateManyIssued =>
        /\ Submitted(VarPayloads) = Arr(NonBlank(call.variables.items))
        /\ (\A i \in DOMAIN call.variables.items : ~IsBlank(call.variables.items[i]))
              => Submitted(VarPayloads) = call.variables
        /\ cleanPayloads(Submitted(VarPayloads)) = Submitted(VarPayloads)

\* [ {id: 2}, {}, {id: 1} ] is submitted as [ {id: 2}, {id: 1} ]
C19_Witness ==
    /\ CreateManyIssued
    /\ call.variables = Arr(<<RecordAt(2), EmptyObj, RecordAt(1)>>)
    /\ Submitted(VarPayloads) = Arr(<<RecordAt(2), RecordAt(1)>>)

\* a call of getList that passes its own document is under way or has settled
CallerList == pc # "idle" /\ call.op = "getList" /\ call.gqlQuery

\* the key the result of such a call is read from
ResultKey == IF IsSome(call.queryKey) THEN call.queryKey[1] ELSE call.resource

\* the array the payload holds under a key, or the empty array
ArrayUnder(k) ==
    IF Payload.t = "object" /\ k \in DOMAIN Payload.props /\ Payload.props[k].t = "array"
    THEN Payload.props[k]
    ELSE Arr(<<>>)

\* C20: with meta.gqlQuery the transport receives exactly the caller's
\* document and exactly meta.variables, whatever filters, sorters,
\* pagination, fields, connectionFields and reverseLookup are; the result is
\* read from the payload under meta.queryKey when it is given and under the
\* resource otherwise
C20_CallerDocumentPassThrough ==
    CallerList =>
        /\ requests = <<[kind |-> "query",
                         document |-> [source |-> "caller", fields |-> call.docFields],
                         variables |-> call.metaVariables]>>
        /\ (AnsweredWithoutError /\ outcome.status = "resolved") =>
              outcome.value.data = ArrayUnder(ResultKey)

\* filters, sorters and pagination are given with the document: the request
\* carries meta.variables only and the result is the list under queryKey
C20_Witness ==
    /\ CallerList
    /\ call.docFields = <<ResProduct, KeyItems>>
    /\ call.queryKey = Some(KeyItems)
    /\ IsSome(call.filters) /\ IsSome(call.sorters) /\ IsSome(call.pagination)
    /\ call.reverseLookup # Undefined
    /\ requests[1].variables = Single(KeyLocale, Str(ValAbc))
    /\ AnsweredWithoutError
    /\ outcome.status = "resolved"
    /\ outcome.value.data = Arr(Records(2))

(***************************************************************************)
(* The provider object: its accessors next to calls that run side by side. *)
(* A handler is an async function; between its await and the answer of the *)
(* transport other handlers and the accessors run.  Each call in flight    *)
(* occupies a slot.                                                        *)
(***************************************************************************)
MaxInFlight == 2

Slots == 1..MaxInFlight

\* a slot without a call
IdleSlot ==
    [pc |-> "idle", call |-> NoCall, requests |-> <<>>, response |-> NoResponse,
     outcome |-> Pending, classified |-> <<>>]

\* the handler of the provider object that runs a call
requestOf(c) ==
    CASE c.op = "getList" -> getListRequest(c)
      [] c.op = "getOne" -> getOneRequest(c)
      [] c.op = "create" -> createRequest(c)
      [] c.op = "createMany" -> createManyRequest(c)
      [] c.op = "update" -> updateRequest(c)
      [] c.op = "deleteOne" -> deleteOneRequest(c)
      [] c.op = "custom" -> customRequest(c)

\* the same handler after its await
settleOf(c, tr, onTokenExpired) ==
    CASE c.op = "getList" -> getListSettle(c, tr, onTokenExpired)
      [] c.op = "getOne" -> getOneSettle(c, tr, onTokenExpired)
      [] c.op = "create" -> createSettle(c, tr, onTokenExpired)
      [] c.op = "createMany" -> createManySettle(c, tr, onTokenExpired)
      [] c.op = "update" -> updateSettle(c, tr, onTokenExpired)
      [] c.op = "deleteOne" -> deleteOneSettle(c, tr, onTokenExpired)
      [] c.op = "custom" -> customSettle(c, tr, onTokenExpired)

\* the rejection of a call that settles before any request is issued, if it
\* is such a call: custom with a configuration error, create and update
\* reading variables.data of an absent variables
earlyRejection(c) ==
    CASE c.op = "custom" -> customConfigError(c)
      [] c.op = "create" /\ ~c.gqlMutation /\ Nullish(c.variables) ->
            Some(catchBoundary(TypeError, MsgFailedCreatePrefix \o c.resource))
      [] c.op = "update" /\ ~c.gqlMutation /\ Nullish(c.variables) ->
            Some(catchBoundary(TypeError,
                    MsgFailedUpdatePrefix \o c.resource \o MsgWithId \o c.id))
      [] OTHER -> None

\* a call up to its await
begun(c) ==
    IF IsSome(earlyRejection(c))
    THEN [IdleSlot EXCEPT !.pc = "settled", !.call = c,
                          !.outcome = Reject(earlyRejection(c)[1])]
    ELSE [IdleSlot EXCEPT !.pc = "awaiting", !.call = c, !.requests = <<requestOf(c)>>]

\* a slip of settled: the handlers keep their result in a binding they share,
\* so a call ends with the result of a call that settled before it
settled_SharedResult(slot, tr, onTokenExpired) ==
    LET r == settleOf(slot.call, tr, onTokenExpired)
        earlier == {t \in DOMAIN inflight : inflight[t].pc = "settled"}
    IN  [slot EXCEPT !.pc = "settled", !.response = tr,
                     !.outcome = IF earlier = {} THEN r.outcome
                                 ELSE inflight[CHOOSE t \in earlier : TRUE].outcome,
                     !.classified = r.classified]

\* a call from the answer of the transport to its end
settled(slot, tr, onTokenExpired) ==
    LET r == settleOf(slot.call, tr, onTokenExpired)
    IN  [slot EXCEPT !.pc = "settled", !.response = tr,
                     !.outcome = r.outcome, !.classified = r.classified]

\* the calls that run side by side
ConcurrentCalls ==
    {Params("getList", ResProducts),
     [Params("update", ResProduct) EXCEPT !.variables = Obj(KeyData :> RecordAt(2))],
     Params("deleteOne", ResProduct),
     [Params("custom", ResProduct) EXCEPT !.gqlQuery = TRUE, !.docFields = <<KeyItems>>],
     Params("custom", ResProduct)}

\* a rejected authentication, as urql reports it
AuthFailure ==
    [networkError |-> None, graphQLErrors |-> <<[message |-> GqlMsgInvalidToken]>>,
     message |-> <<>>]

\* the answers of the transport to such calls: a record under every field of
\* the document, a rejected authentication, a thrown value
ConcurrentAnswers(fields) ==
    {[kind |-> "response", error |-> None,
      data |-> Obj([k \in Range(fields) |-> Obj(KeyId :> Num(1) @@ KeyData :> RecordAt(1))])],
     [kind |-> "response", error |-> Some(AuthFailure), data |-> Undefined],
     [kind |-> "throw", value |-> [message |-> ThrownMsgBoom, statusCode |-> None]]}

\* a handler is called while a slot is free
ConcurrentCall ==
    /\ \E s \in Slots, c \in ConcurrentCalls :
          /\ inflight[s].pc = "idle"
          /\ inflight' = [inflight EXCEPT ![s] = begun(c)]
    /\ UNCHANGED <<pc, call, requests, response, outcome, classified, expired>>
    /\ UNCHANGED <<hasOnTokenExpired, constructed, apiUrl, token, stored, returned, sent>>

\* the transport answers one of the calls in flight, in any order
ConcurrentSettle ==
    /\ \E s \in Slots :
          /\ inflight[s].pc = "awaiting"
          /\ \E tr \in ConcurrentAnswers(inflight[s].requests[1].document.fields) :
                inflight' = [inflight EXCEPT ![s] = settled(inflight[s], tr,
                                                            hasOnTokenExpired)]
    /\ UNCHANGED <<pc, call, requests, response, outcome, classified, expired>>
    /\ UNCHANGED <<hasOnTokenExpired, constructed, apiUrl, token, stored, returned, sent>>

\* the caller has observed the settled promise of a call
ConcurrentReturn ==
    /\ \E s \in Slots :
          /\ inflight[s].pc = "settled"
          /\ inflight' = [inflight EXCEPT ![s] = IdleSlot]
    /\ UNCHANGED <<pc, call, requests, response, outcome, classified, expired>>
    /\ UNCHANGED <<hasOnTokenExpired, constructed, apiUrl, token, stored, returned, sent>>

\* what an accessor hands back: a text or a client
Returned(accessor, value) == Some([accessor |-> accessor, value |-> value])

\* new Client({ url: apiUrl, fetchOptions: () => ... `Bearer ${token}` }): the
\* client reads the binding token whenever it sends a request
Client(url) == [url |-> url, bearer |-> "token"]

\* a slip of getApiClientToken: the stored token is never read
getApiClientToken_NeverReads(tenantFlag, tok, item) ==
    tok

\* a slip of getApiClientToken: the stored token is read whatever tenant is
getApiClientToken_AlwaysReads(tenantFlag, tok, item) ==
    IF IsSome(item) THEN item[1] ELSE MsgNotSet

\* the binding token after getApiClient:
\* if (tenant) token = localStorage.getItem(tokenKey) ?? "not-set"
getApiClientToken(tenantFlag, tok, item) ==
    IF tenantFlag = Some(TRUE)
    THEN (IF IsSome(item) THEN item[1] ELSE MsgNotSet)
    ELSE tok

\* getApiUrl: () => apiUrl
GetApiUrl ==
    /\ returned' = Returned("getApiUrl", Str(apiUrl))
    /\ UNCHANGED <<pc, call, requests, response, outcome, classified, expired>>
    /\ UNCHANGED <<hasOnTokenExpired, constructed, apiUrl, token, stored, inflight, sent>>

\* getToken: () => token
GetToken ==
    /\ returned' = Returned("getToken", Str(token))
    /\ UNCHANGED <<pc, call, requests, response, outcome, classified, expired>>
    /\ UNCHANGED <<hasOnTokenExpired, constructed, apiUrl, token, stored, inflight, sent>>

\* getApiClient: () => new Client(...)
GetApiClient ==
    /\ token' = getApiClientToken(constructed.tenant, token, stored)
    /\ returned' = Returned("getApiClient", Client(apiUrl))
    /\ UNCHANGED <<pc, call, requests, response, outcome, classified, expired>>
    /\ UNCHANGED <<hasOnTokenExpired, constructed, apiUrl, stored, inflight, sent>>

NextConcurrent ==
    \/ ConcurrentCall
    \/ ConcurrentSettle
    \/ ConcurrentReturn
    \/ GetApiUrl
    \/ GetToken
    \/ GetApiClient

\* apitoDataProvider(apiUrl, token, onTokenExpired) for the urls and tokens of
\* the environment
InitConcurrent ==
    /\ hasOnTokenExpired = TRUE
    /\ NoCalls
    /\ \E args \in {Arguments(UrlOne, TokenOne, None), Arguments(UrlTwo, TokenTwo, None)} :
          Constructed(args)
    /\ stored = None
    /\ inflight = [s \in Slots |-> IdleSlot]

SpecConcurrent == InitConcurrent /\ [][NextConcurrent]_vars

\* the provider was built as apitoDataProvider(apiUrl, token, onTokenExpired)
CallbackVariant == constructed.tenant = None

\* the value the latest call of an accessor returned, if it was this accessor
ReturnedBy(accessor) ==
    IF IsSome(returned) /\ returned[1].accessor = accessor
    THEN Some(returned[1].value)
    ELSE None

\* some call in flight has invoked onTokenExpired
SomeCallExpired ==
    \E s \in DOMAIN inflight : SumExpired(inflight[s].classified) > 0

\* C21: whatever operations and accessors were called and however the calls
\* ended, the bindings apiUrl and token hold the arguments the provider was
\* constructed with, getApiUrl() and getToken() return them, and the client
\* getApiClient() returns points at the construction apiUrl
C21_AccessorsReturnConstruction ==
    CallbackVariant =>
        /\ apiUrl = constructed.apiUrl
        /\ token = constructed.token
        /\ ReturnedBy("getApiUrl") \in {None, Some(Str(constructed.apiUrl))}
        /\ ReturnedBy("getToken") \in {None, Some(Str(constructed.token))}
        /\ ReturnedBy("getApiClient") \in {None, Some(Client(constructed.apiUrl))}

\* getToken() returned the construction token after a call had invoked
\* onTokenExpired, while another call was waiting for its answer
C21_Witness ==
    /\ CallbackVariant
    /\ constructed.token = TokenTwo
    /\ ReturnedBy("getToken") = Some(Str(TokenTwo))
    /\ SomeCallExpired
    /\ \E s \in DOMAIN inflight : inflight[s].pc = "awaiting"

\* the call under way rejected with a configuration error of custom
ConfigRejected(c) == c.op = "custom" /\ IsSome(customConfigError(c))

\* a step of a call: no request is added after the first, the answer settles
\* the call without a request and without a write of token, and a settled
\* call only returns
OneRequestStep ==
    /\ Len(requests') <= 1
    /\ pc = "awaiting" =>
          /\ pc' = "settled"
          /\ outcome'.status \in {"resolved", "rejected"}
          /\ requests' = requests
          /\ call' = call
          /\ token' = token
    /\ pc = "settled" => pc' = "idle"

\* the steps of a call keep to one request and one settlement
C22_SettlesOnce == [][OneRequestStep]_vars

\* a call under way has issued at most one request, is pending until the
\* answer and settled after it, and has left token as it was constructed
OneRequest ==
    /\ Len(requests) <= 1
    /\ pc = "awaiting" => Len(requests) = 1 /\ outcome = Pending
    /\ pc = "settled" => outcome.status \in {"resolved", "rejected"}
    /\ token = constructed.token

C22_WitnessNoRequest ==
    /\ pc = "settled"
    /\ call.op = "create"
    /\ ~call.gqlMutation
    /\ call.variables = Undefined
    /\ outcome.status = "rejected"
    /\ outcome.error.statusCode = Some(500)
    /\ requests = <<>>

\* the slots that hold a call
Occupied == {s \in DOMAIN inflight : inflight[s].pc # "idle"}

\* what the call of a slot would have submitted and, once answered, how it
\* would have ended had it run with nothing else in flight
RanAlone(slot) ==
    IF IsSome(earlyRejection(slot.call))
    THEN [requests |-> <<>>, outcome |-> Reject(earlyRejection(slot.call)[1])]
    ELSE [requests |-> <<requestOf(slot.call)>>,
          outcome |-> IF slot.pc = "settled"
                      THEN settleOf(slot.call, slot.response, hasOnTokenExpired).outcome
                      ELSE Pending]

SynthesizedSelection ==
    /\ pc # "idle"
    /\ call.op \in {"getList", "getOne"}
    /\ ~call.gqlQuery
    /\ Len(requests) = 1

\* the selections the submitted document holds next to data, one per line
ConnectionLines ==
    IF Len(requests[1].document.connections) = 0 THEN <<>>
    ELSE split(requests[1].document.connections, NewLine)

\* aliasFields declares an actual field for the key
Declares(aliasFields, key) ==
    HasProp(aliasFields, key) /\ Get(aliasFields, key) # Str(<<>>)

\* the selection of a connection: 'key: actualField { subselection }' or
\* 'key { subselection }'
Selection(entry, aliasFields) ==
    entry.key
        \o (IF Declares(aliasFields, entry.key)
            THEN <<":", " ">> \o Get(aliasFields, entry.key).s
            ELSE <<>>)
        \o <<" ", "{", " ">> \o entry.fields \o <<" ", "}">>

\* C24: the document of getList and getOne holds exactly one selection per
\* key of connectionFields, in key order: the aliased form when aliasFields
\* declares an actual field for the key, the plain form otherwise; a key that
\* appears only in aliasFields emits nothing
C24_ConnectionSelections ==
    SynthesizedSelection =>
        /\ Len(ConnectionLines) = Len(call.connectionFields)
        /\ \A i \in 1..Len(call.connectionFields) :
              i \in DOMAIN ConnectionLines
              /\ ConnectionLines[i] = Selection(call.connectionFields[i], call.aliasFields)
        /\ \A k \in DOMAIN call.aliasFields.props :
              (\A i \in 1..Len(call.connectionFields) : call.connectionFields[i].key # k)
              => ~includes(requests[1].document.connections, AliasOf(k))

\* getOne with connectionFields {brand, category} and aliasFields {category,
\* owner}: a plain selection of brand, an aliased one of category, none of owner
C24_Witness ==
    /\ SynthesizedSelection
    /\ call.op = "getOne"
    /\ Len(call.connectionFields) = 2
    /\ call.connectionFields[1].key = ConnBrand
    /\ call.aliasFields = Obj(ConnCategory :> Str(AliasCategory) @@ ConnOwner :> Str(AliasOwner))
    /\ ConnectionLines = <<ConnBrand \o <<" ", "{", " ">> \o FieldId \o <<" ", "}">>,
                           ConnCategory \o <<":", " ">> \o AliasCategory
                               \o <<" ", "{", " ">> \o FldName \o <<" ", "}">>>>

(***************************************************************************)
(* handleGraphQLError on error objects whose messages may be missing       *)
(***************************************************************************)
\* `${undefined}`
MsgUndefined ==
    <<"u", "n", "d", "e", "f", "i", "n", "e", "d">>

\* the error objects handed to the classifier: none, a network failure with
\* or without message and status, GraphQL errors with or without message, or
\* neither
RawErrors ==
    {None} \cup
    { Some([networkError |-> networkError, graphQLErrors |-> graphQLErrors,
            message |-> message]) :
        networkError \in {None} \cup
            { Some([statusCode |-> statusCode, status |-> None, message |-> m]) :
                statusCode \in {None, Some(401), Some(500)},
                m \in {None, Some(NetMsgFailedToFetch)} },
        graphQLErrors \in UNION { [1..n -> [message : {None, Some(GqlMsgPlain),
                                                       Some(GqlMsgForbidden)}]]
                                  : n \in 0..MaxGraphQLErrors },
        message \in {None, Some(ThrownMsgBoom)} }

\* the text a message reads as where the code does not call a method on it:
\* 'undefined' in the template of the network branch, '' in join and before ||
messageText(message, missing) == IF IsSome(message) THEN message[1] ELSE missing

\* graphQLErrors.some(...) calls err.message.toLowerCase() on the entries in
\* order until one holds a keyword: it throws at an entry without message
\* that it reaches
someThrows(graphQLErrors) ==
    \E i \in 1..Len(graphQLErrors) :
        /\ graphQLErrors[i].message = None
        /\ \A j \in 1..(i - 1) :
              /\ IsSome(graphQLErrors[j].message)
              /\ ~hasAuthError(<<[message |-> graphQLErrors[j].message[1]]>>)

\* the error object with the texts its messages read as
withTexts(raw) ==
    [networkError |->
        IF IsSome(raw.networkError)
        THEN Some([raw.networkError[1] EXCEPT
                      !.message = messageText(raw.networkError[1].message, MsgUndefined)])
        ELSE None,
     graphQLErrors |->
        [i \in 1..Len(raw.graphQLErrors) |->
            [message |-> messageText(raw.graphQLErrors[i].message, <<>>)]],
     message |-> messageText(raw.message, <<>>)]

\* a call of handleGraphQLError: it returns an HttpError or throws the
\* TypeError of reading toLowerCase of undefined
classify(raw, onTokenExpired) ==
    IF IsSome(raw) /\ ~IsSome(raw[1].networkError) /\ someThrows(raw[1].graphQLErrors)
    THEN [threw |-> TRUE, error |-> TypeError, expired |-> 0]
    ELSE LET h == handleGraphQLError(IF IsSome(raw) THEN Some(withTexts(raw[1])) ELSE None,
                                     onTokenExpired)
         IN  [threw |-> FALSE, error |-> h.error, expired |-> h.expired]

\* the classifier is applied to an error object
Classify ==
    /\ CanCall
    /\ \E raw \in RawErrors, onTokenExpired \in BOOLEAN :
          LET r == classify(raw, onTokenExpired)
          IN  /\ call' = [op |-> "handleGraphQLError", error |-> raw,
                          onTokenExpired |-> onTokenExpired]
              /\ outcome' = IF r.threw THEN [status |-> "threw", error |-> r.error]
                            ELSE [status |-> "returned", value |-> r.error]
              /\ expired' = r.expired
    /\ pc' = "settled"
    /\ UNCHANGED <<requests, response, classified, provider>>

NextClassify ==
    \/ Classify
    \/ Return

SpecClassify == Init /\ [][NextClassify]_vars

\* the classifier has been applied
Classified == pc = "settled" /\ call.op = "handleGraphQLError"

\* C25: the classifier never throws: for every error object it returns a
\* message and a statusCode, {'Unknown error occurred', 500} for no error
\* object and statusCode 400 for one with neither a network failure nor
\* GraphQL errors
C25_ClassifierTotal ==
    Classified =>
        /\ outcome.status = "returned"
        /\ IsSome(outcome.value.statusCode)
        /\ call.error = None => outcome.value = HttpError(MsgUnknownError, 500)
        /\ (IsSome(call.error) /\ call.error[1].networkError = None
              /\ call.error[1].graphQLErrors = <<>>)
           => outcome.value.statusCode = Some(400)

\* the classifier threw on GraphQL errors with an entry without message
C25_Throws ==
    /\ Classified
    /\ IsSome(call.error)
    /\ call.error[1].graphQLErrors = <<[message |-> Some(GqlMsgPlain)], [message |-> None]>>
    /\ outcome.status = "threw"

\* the places of the groups of the list under or (and)
GroupPlaces(operator) ==
    {i \in DOMAIN TopLevelFilters :
        LET c == TopLevelFilters[i]
        IN  IsGroup(c) /\ c.field = None /\ c.operator = Some(operator)}

\* a member of a group with a field, an operator and a defined value
IsUsable(member) ==
    /\ IsSome(member.field) /\ member.field[1] # <<>>
    /\ IsSome(member.operator) /\ member.operator[1] # <<>>
    /\ member.value # Undefined

\* every usable member of every group under the operator is found under the
\* key of where, as field without 'data.' -> { operator: value }
Collected(operator, key) ==
    \A i \in GroupPlaces(operator) :
        \A j \in DOMAIN TopLevelFilters[i].value.items :
            LET member == TopLevelFilters[i].value.items[j]
            IN  IsUsable(member) =>
                    Get(Get(Submitted(VarWhere), key), Stripped(member.field[1]))
                        = Obj(member.operator[1] :> member.value)

\* C26: every member of an or (and) group that has a field, an operator and
\* a defined value is represented under where.OR (where.AND) as adjusted
\* field -> { operator: value }, and where has no top-level entry other than
\* OR, AND and the names the top-level conditions are compiled under
C26_GroupsCollected ==
    SynthesizedList =>
        /\ Collected(OpOr, KeyOR)
        /\ Collected(OpAnd, KeyAND)
        /\ \A k \in DOMAIN Submitted(VarWhere).props :
              k \in {KeyOR, KeyAND} \/ PlacesFor(k) # {}

\* the group or [name eq abc, data.name ne abc] is submitted as
\* { OR: { name: { ne: abc } } }: the first member is not represented
C26_MemberLost ==
    /\ SynthesizedList
    /\ TopLevelFilters = <<Condition(None, Some(OpOr),
                             Arr(<<Condition(Some(FldName), Some(OpEq), Str(ValAbc)),
                                   Condition(Some(FldDataName), Some(OpNe), Str(ValAbc))>>))>>
    /\ Submitted(VarWhere) = Single(KeyOR, Single(FldName, Single(OpNe, Str(ValAbc))))

\* of two or groups only the second is submitted
C26_GroupLost ==
    /\ SynthesizedList
    /\ Len(TopLevelFilters) = 2
    /\ GroupPlaces(OpOr) = {1, 2}
    /\ Len(TopLevelFilters[1].value.items) = 2
    /\ IsUsable(TopLevelFilters[1].value.items[2])
    /\ TopLevelFilters[2].value.items = <<>>
    /\ Get(Submitted(VarWhere), KeyOR) = EmptyObj

\* the segments of a relation field after 'relation.'
PathOf(field) == split(SubSeq(field, Len(MarkRelation) + 1, Len(field)), Dot)

\* the value found in an object by following a path
RECURSIVE AtPath(_, _)
AtPath(value, path) ==
    IF Len(path) = 0 THEN value ELSE AtPath(Get(value, path[1]), Tail(path))

\* the places of the complete relation conditions whose field no later
\* relation condition names again
LastRelationPlaces ==
    {i \in RelationPlaces :
        /\ ~IsIncomplete(TopLevelFilters[i])
        /\ startsWith(TopLevelFilters[i].field[1], MarkRelation)
        /\ \A j \in RelationPlaces : j > i => TopLevelFilters[j].field # TopLevelFilters[i].field}

\* C27: relation conditions leave no entry in where; each is compiled into
\* the relation condition as an object that mirrors its path with the leaf
\* { operator: value }, and after several of them on different paths the
\* relation condition holds the leaf of every one at its path
C27_RelationsMerged ==
    SynthesizedList =>
        /\ \A i \in RelationPlaces :
              LET field == TopLevelFilters[i].field[1]
              IN  /\ PlacesFor(field) = {} => ~HasProp(Submitted(VarWhere), field)
                  /\ ~HasProp(Submitted(VarWhere), KeyRelation)
        /\ \A i \in LastRelationPlaces :
              AtPath(Submitted(VarRelationWhere), PathOf(TopLevelFilters[i].field[1]))
                  = Obj(TopLevelFilters[i].operator[1] :> TopLevelFilters[i].value)

\* relation.category.name and relation.category.slug: the relation condition
\* holds the leaf of slug only
C27_LeafLost ==
    /\ SynthesizedList
    /\ TopLevelFilters = <<Condition(Some(FldRelCategoryName), Some(OpEq), Str(ValAbc)),
                           Condition(Some(FldRelCategorySlug), Some(OpNe), Str(ValAbc))>>
    /\ Submitted(VarRelationWhere)
          = Single(PathOf(FldRelCategorySlug)[1],
                   Single(PathOf(FldRelCategorySlug)[2], Single(OpNe, Str(ValAbc))))

\* relation.category.name and relation.brand.name: both leaves are held
C27_BothHeld ==
    /\ SynthesizedList
    /\ TopLevelFilters = <<Condition(Some(FldRelCategoryName), Some(OpEq), Str(ValAbc)),
                           Condition(Some(FldRelBrandName), Some(OpEq), Str(ValAbc))>>
    /\ keysLength(Submitted(VarRelationWhere)) = 2
    /\ Submitted(VarWhere) = EmptyObj

(***************************************************************************)
(* The tenant variant: apitoDataProvider(apiUrl, token, tenant, tokenKey). *)
(* Its handlers send their requests through the client built at            *)
(* construction, whose fetchOptions reads the binding token when a request *)
(* is sent; getApiClient is the only place that assigns token.  The        *)
(* handlers are modelled by the request they send.                         *)
(***************************************************************************)
\* what localStorage may hold under tokenKey: nothing, an empty text, a token
StoredTokens == {None, Some(<<>>), Some(TokenTwo), Some(TokenThree)}

\* the handlers of the tenant variant
TenantOperations ==
    {"getList", "getOne", "create", "createMany", "update", "deleteOne", "custom"}

\* headers: { Authorization: `Bearer ${token}` }, read when the request is sent
Sent(sender, bearer) == Some([sender |-> sender, bearer |-> bearer])

\* the application stores, replaces or removes the token under tokenKey
StorageSet ==
    /\ \E item \in StoredTokens : item # stored /\ stored' = item
    /\ UNCHANGED <<pc, call, requests, response, outcome, classified, expired>>
    /\ UNCHANGED <<hasOnTokenExpired, constructed, apiUrl, token, returned, inflight, sent>>

\* a handler sends its request through client
TenantOperation ==
    /\ \E op \in TenantOperations : sent' = Sent(op, token)
    /\ UNCHANGED <<pc, call, requests, response, outcome, classified, expired>>
    /\ UNCHANGED <<hasOnTokenExpired, constructed, apiUrl, token, stored, returned, inflight>>

\* the caller sends a request through the client getApiClient returned
ClientRequest ==
    /\ IsSome(returned) /\ returned[1].accessor = "getApiClient"
    /\ sent' = Sent("client", token)
    /\ UNCHANGED <<pc, call, requests, response, outcome, classified, expired>>
    /\ UNCHANGED <<hasOnTokenExpired, constructed, apiUrl, token, stored, returned, inflight>>

NextTenant ==
    \/ StorageSet
    \/ GetApiClient
    \/ GetToken
    \/ GetApiUrl
    \/ TenantOperation
    \/ ClientRequest

InitTenant ==
    /\ hasOnTokenExpired = FALSE
    /\ NoCalls
    /\ \E tenantFlag \in BOOLEAN : Constructed(Arguments(UrlOne, TokenOne, Some(tenantFlag)))
    /\ stored \in StoredTokens
    /\ NoneInFlight

SpecTenant == InitTenant /\ [][NextTenant]_vars

\* the token localStorage gives: the stored item, 'not-set' when there is none
StoredOrNotSet == IF stored = None THEN MsgNotSet ELSE stored[1]

\* C28: with tenant = true every access to getApiClient makes the stored
\* token ('not-set' when nothing is stored) the provider's token and nothing
\* else changes the token, so getToken() returns the value of the latest
\* access (the constructor token before the first); every request of the
\* returned client and of the operations carries the token of that moment
\* and leaves it as it is; with tenant = false the token stays the
\* constructor token
C28_TenantToken ==
    [][/\ returned' # returned /\ returned'[1].accessor = "getApiClient"
             => token' = IF constructed.tenant = Some(TRUE) THEN StoredOrNotSet ELSE token
       /\ token' # token
             => /\ constructed.tenant = Some(TRUE)
                /\ returned'[1].accessor = "getApiClient"
                /\ sent' = sent
                /\ token' = StoredOrNotSet
       /\ returned' # returned /\ returned'[1].accessor = "getToken"
             => returned'[1].value = Str(token) /\ token' = token
       /\ sent' # sent => sent'[1].bearer = token /\ token' = token
       /\ constructed.tenant = Some(FALSE) => token' = constructed.token]_vars

\* after the stored token was replaced and getApiClient accessed, getToken()
\* returned the stored token and an operation sent it
C28_Witness ==
    /\ constructed.tenant = Some(TRUE)
    /\ constructed.token = TokenOne
    /\ stored = Some(TokenThree)
    /\ token = TokenThree
    /\ ReturnedBy("getToken") = Some(Str(TokenThree))
    /\ IsSome(sent) /\ sent[1].sender = "update" /\ sent[1].bearer = TokenThree

\* nothing is stored: the token becomes 'not-set'
C28_WitnessNotSet ==
    /\ constructed.tenant = Some(TRUE)
    /\ stored = None
    /\ token = MsgNotSet
    /\ IsSome(sent) /\ sent[1].sender = "client" /\ sent[1].bearer = MsgNotSet

\* the filters of a call of custom, none counting as the empty list
CustomFilterList == IF IsSome(call.filters) THEN call.filters[1] ELSE <<>>

\* the places of the filters of custom that have an operator and a defined
\* value and are compiled under the name f
CustomPlacesFor(f) ==
    {i \in DOMAIN CustomFilterList :
        /\ ~IsIncomplete(CustomFilterList[i])
        /\ Stripped(CustomFilterList[i].field[1]) = f}

\* the names the filters of custom are compiled under
CustomNames ==
    {Stripped(CustomFilterList[i].field[1]) :
        i \in {j \in DOMAIN CustomFilterList : ~IsIncomplete(CustomFilterList[j])}}

\* the submitted variables agree with meta.gqlVariables on every key but these
SameExcept(keys) ==
    LET given == spread(call.gqlVariables)
        submitted == spread(requests[1].variables)
    IN  /\ DOMAIN submitted.props \ keys = DOMAIN given.props \ keys
        /\ \A k \in DOMAIN given.props \ keys : submitted.props[k] = given.props[k]

\* C29: custom without filters submits meta.gqlVariables (payloads apart);
\* with filters it submits them with where set to the compiled conditions
\* (incomplete ones skipped, 'data.' stripped, the last of a name winning)
\* and every other variable unchanged; a where of the caller is kept
\* whenever the filters contribute no condition
C29_CustomAugmentation ==
    CustomIssued =>
        /\ call.filters = None =>
              /\ SameExcept({VarPayloads})
              /\ call.gqlVariables = Undefined => requests[1].variables = Undefined
        /\ IsSome(call.filters) /\ CustomNames # {} =>
              /\ SameExcept({VarPayloads, VarWhere})
              /\ DOMAIN Submitted(VarWhere).props = CustomNames
              /\ \A f \in CustomNames :
                    LET last == CustomFilterList[Last(CustomPlacesFor(f))]
                    IN  Get(Submitted(VarWhere), f) = Obj(last.operator[1] :> last.value)
        /\ CustomNames = {} => Submitted(VarWhere) = Get(call.gqlVariables, VarWhere)

\* custom with the caller's where and an empty list of filters submits
\* where = {}
C29_WhereLost ==
    /\ CustomIssued
    /\ call.filters = Some(<<>>)
    /\ Get(call.gqlVariables, VarWhere) = Single(FldPrice, Single(OpNe, Str(ValAbc)))
    /\ Submitted(VarWhere) = EmptyObj

\* update or deleteOne wrote its own document and the call has settled on an
\* answer without error
MutationAnswered ==
    /\ pc = "settled"
    /\ call.op \in {"update", "deleteOne"}
    /\ ~call.gqlMutation
    /\ Len(requests) = 1
    /\ AnsweredWithoutError
    /\ ~hasDataErrors(Payload)

\* the field of the mutation in the submitted document
MutationField == requests[1].document.fields[1]

\* C30: for update and deleteOne on any resource name the result is read
\* from the field of the mutation in the synthesized document (update<Name>,
\* delete<Name>, Name the capitalized singular): whenever the backend returns
\* a record under that field the call resolves with the record's content
C30_ResultReadFromMutationField ==
    MutationAnswered =>
        /\ MutationField = (IF call.op = "update" THEN PreUpdate ELSE PreDelete)
                               \o capitalize(singular(call.resource))
        /\ Get(Get(Payload, MutationField), KeyData).t = "object" =>
              /\ outcome.status = "resolved"
              /\ outcome.value.data = Get(Get(Payload, MutationField), KeyData)

\* update of 'products' answered with a record under updateProduct resolves
\* with the default empty object
C30_DefaultReturned ==
    /\ MutationAnswered
    /\ call.op = "update"
    /\ call.resource = ResProducts
    /\ Get(Payload, MutationField) = Obj(KeyId :> Num(1) @@ KeyData :> RecordAt(1))
    /\ outcome = Resolve([data |-> EmptyObj])

\* on a singular resource name the record's content is returned
C30_SingularHolds ==
    (MutationAnswered /\ call.resource = ResProduct) => C30_ResultReadFromMutationField

====
